---- MODULE Spec2Model ----
(***************************************************************************)
(* Data distribution team collection (DDTeamCollection) of                 *)
(* fdbserver/DataDistribution.actor.cpp: the registry of storage servers,  *)
(* machines, machine teams and server teams, the per-team and per-server   *)
(* trackers, the team builder, recruitment and server removal.             *)
(*                                                                         *)
(* Vectors are sequences (the code removes by swapping the last element    *)
(* in), reference-counted objects live in two small heaps (server teams    *)
(* and machine teams) and a machine object is named by its zoneId.  One    *)
(* step of the model is the code that runs between two waits of an actor.  *)
(*                                                                         *)
(* The team collection with its server and team registries is the          *)
(* specification Spec.  Five tasks of the collection are modelled each on  *)
(* its own, over the fields it uses: the perpetual storage wiggle          *)
(* (WiggleSpec), the team trackers with all that they count (TrackerSpec), *)
(* the destructors of the collections of the two regions (TeardownSpec),   *)
(* getTeam (SelectionSpec) and the storage recruiter with the testing      *)
(* storage servers it pairs (RecruitSpec).                                 *)
(*                                                                         *)
(* Left out: the healthy zone, relocation requests, and the machine team   *)
(* and server team removers.  init() is one step, although it yields       *)
(* after each team it adds.                                                *)
(***************************************************************************)
EXTENDS Integers, Sequences, FiniteSets, TLC

\* ---- bounds of the model ------------------------------------------------
NumServers == 3
NumZones == 3
MaxTeamObjs == 4
MaxMachineTeamObjs == 4
MaxEnvSteps == 2
MaxVersion == 2
NumPids == 3
NumWiggleTeams == 2
MaxWiggleEvents == 3
MaxWiggles == 2
MaxStatusChanges == 2
MaxFailures == 3
MaxTeamSize == 3
MaxRpcReplies == 2
NumShards == 2
MaxShardMoves == 1
MaxTornDown == 2
NumSelectionServers == 3
MaxSelectionEvents == 2
MaxGetTeamCalls == 2
NumRecruitAddresses == 3
MaxRecruits == 3
MaxRecruitEvents == 2
NumRemoverServers == 5
NumProcessServers == 3
NumProcessIds == 2
NumListedServers == 2
MaxListReads == 2
NumBuildCallers == 3
MaxBuilders == 3
MaxBuildEvents == 2
NumZoneServers == 2
MaxZoneEvents == 3
NumLagServers == 2
NumLagZones == 2
MaxLagEvents == 4
MaxRemoverEvents == 2
MaxTeamsOfLast == 1

\* ---- configuration and knobs -------------------------------------------
desiredTSSCount == 2
storageTeamSize == 2
DESIRED_TEAMS_PER_SERVER == 5
\* the same knob as the team removers read it, set low so that a few servers have
\* more teams than desired
REMOVER_TEAMS_PER_SERVER == 1
MAX_TEAMS_PER_SERVER == 10
MAX_READ_TRANSACTION_LIFE_VERSIONS == 1
PRIORITY_TEAM_FAILED == 805
DD_STORAGE_WIGGLE_PAUSE_THRESHOLD == 10
DD_STORAGE_WIGGLE_STUCK_THRESHOLD == 20
\* ratios of available space are in percent, space in units of MIN_AVAILABLE_SPACE
MIN_AVAILABLE_SPACE_RATIO == 5
TARGET_AVAILABLE_SPACE_RATIO == 30
AVAILABLE_SPACE_RATIO_CUTOFF == 5
MIN_AVAILABLE_SPACE == 1
BEST_TEAM_OPTION_COUNT == 4

Servers == 1 .. NumServers
Zones == 1 .. NumZones
TeamIds == 1 .. MaxTeamObjs
MachineTeamIds == 1 .. MaxMachineTeamObjs

\* ---- vectors -----------------------------------------------------------
Range(v) == {v[i] : i \in 1 .. Len(v)}

Contains(v, x) == \E i \in 1 .. Len(v) : v[i] = x

Count(v, x) == Cardinality({i \in 1 .. Len(v) : v[i] = x})

\* v[t--] = v.back(); v.pop_back();
SwapRemoveAt(v, t) ==
    IF t = Len(v) THEN SubSeq(v, 1, Len(v) - 1)
    ELSE [i \in 1 .. Len(v) - 1 |-> IF i = t THEN v[Len(v)] ELSE v[i]]

\* the loop that swap-removes the first element equal to x and breaks
SwapRemoveFirst(v, x) ==
    IF Contains(v, x)
    THEN SwapRemoveAt(v, CHOOSE i \in 1 .. Len(v) : v[i] = x /\ \A j \in 1 .. i - 1 : v[j] # x)
    ELSE v

\* the loop that swap-removes every element in S, re-examining index t after a swap
RECURSIVE SwapRemoveAll(_, _, _)
SwapRemoveAll(v, S, t) ==
    IF t > Len(v) THEN v
    ELSE IF v[t] \in S THEN SwapRemoveAll(SwapRemoveAt(v, t), S, t)
    ELSE SwapRemoveAll(v, S, t + 1)

\* std::sort of a vector of ids
RECURSIVE SortIds(_)
SortIds(v) ==
    IF Len(v) = 0 THEN <<>>
    ELSE LET m == CHOOSE i \in 1 .. Len(v) : \A j \in 1 .. Len(v) : v[i] <= v[j]
         IN <<v[m]>> \o SortIds([i \in 1 .. Len(v) - 1 |-> IF i < m THEN v[i] ELSE v[i + 1]])

\* ---- objects -----------------------------------------------------------
\* TCServerInfo: an unregistered id holds this value
NoServerInfo ==
    [registered |-> FALSE, zone |-> 0, localityEntry |-> 0, teams |-> <<>>,
     machine |-> 0, addedVersion |-> 0]

\* ServerStatus(): the value server_status.get() returns for an unknown id
DefaultServerStatus ==
    [initialized |-> FALSE, isFailed |-> TRUE, isUndesired |-> FALSE, locality |-> 0]

\* ServerStatus(isFailed, isUndesired, isWiggling, locality)
ServerStatus(isFailed, isUndesired, locality) ==
    [initialized |-> TRUE, isFailed |-> isFailed, isUndesired |-> isUndesired,
     locality |-> locality]

\* ServerStatus::isUnhealthy
isUnhealthy(st) == st.isFailed \/ st.isUndesired

\* TCMachineInfo: a zone with no machine holds this value
NoMachineInfo == [present |-> FALSE, serversOnMachine |-> <<>>, machineTeams |-> <<>>]

\* TCMachineTeamInfo: a free slot of the machine team heap
NoMachineTeam == [machineIDs |-> <<>>, serverTeams |-> <<>>]

\* TCTeamInfo and the state of its teamTracker: a free slot of the team heap
NoTeam ==
    [servers |-> <<>>, healthy |-> FALSE, machineTeam |-> 0, tracker |-> "none",
     badTeam |-> FALSE, lastHealthy |-> FALSE, lastServersLeft |-> 0,
     lastAnyUndesired |-> FALSE]

\* DDTeamCollection::DDTeamCollection
NewCollection ==
    [server_info |-> [s \in Servers |-> NoServerInfo],
     server_status |-> [s \in Servers |-> DefaultServerStatus],
     excludedServers |-> [s \in Servers |-> "NONE"],
     machine_info |-> [z \in Zones |-> NoMachineInfo],
     machineTeamObj |-> [m \in MachineTeamIds |-> NoMachineTeam],
     machineTeams |-> <<>>,
     teamObj |-> [t \in TeamIds |-> NoTeam],
     teams |-> <<>>,
     badTeams |-> <<>>,
     healthyTeamCount |-> 0,
     zeroHealthyTeams |-> TRUE,
     unhealthyServers |-> 0,
     recruitingIds |-> {},
     doBuildTeams |-> TRUE,
     lastBuildTeamsFailed |-> FALSE,
     addSubsetComplete |-> FALSE,
     badTeamRemover |-> "ready",
     assertFailed |-> FALSE,
     overflow |-> FALSE]

VARIABLES
    self,               \* the DDTeamCollection
    phase,              \* "constructed", "running", "destroyed", "restarted"
    ssTracker,          \* per server: where its storageServerTracker waits, its local
                        \* ServerStatus and lastIsUnhealthy
    removeFailedServer, \* the server sent on the removeFailedServer promise, 0 if unset
    observed,           \* per server: what the waitForAllDataRemoved that returned had read
    removedBy,          \* per server: which path removed it from the database
    budget,             \* environment events left
    last                \* the step taken last, and the server it was about

\* the state of the team collection and its trackers
ddVars == <<self, phase, ssTracker, removeFailedServer, observed, removedBy, budget, last>>

VARIABLES
    wiggle,             \* the perpetual storage wiggle: the collection's fields it uses and
                        \* the positions and local variables of its actors
    db,                 \* the system keys the wiggle reads and writes
    teamTrackers,       \* some teams with all that their trackers count
    teamCollections,    \* the collections of the two regions, for their destructors
    teamSelection,      \* the teams, metrics and indices that getTeam reads, and what
                        \* its last call was asked and replied
    recruitment,        \* the storageRecruiter, the initializeStorage actors it started
                        \* and the TSSPairStates they share
    priorityOf,         \* a team of any size as a tracker reads it, and the priority the
                        \* tracker gives it
    rpcs,               \* the tasks of the collection that poll, each where it waits, and
                        \* the last answer that one of the collection's requests got
    removers,           \* the team removers and the bad-team remover, each where it
                        \* waits, and the teams they remove
    processes,          \* the storage servers with their process IDs, and pid2server_info
    registry,           \* the server list of the database, the read of it in flight, the
                        \* recruitments in flight and the records of server_and_tss_info
    building,           \* the team builder, the callers of checkBuildTeams and where each
                        \* of them waits
    zoneTracking,       \* the healthy zone, the failure tracker of each server and the
                        \* tracker of their team
    lagging             \* lagging_zones and, for each server, its zone and whether its
                        \* version is too far behind

\* the state of the other tasks of the collection, each modelled on its own
otherVars ==
    <<wiggle, db, teamTrackers, teamCollections, teamSelection, recruitment, priorityOf, rpcs,
      removers,
      processes,
      registry,
      building,
      zoneTracking,
      lagging>>

vars == <<self, phase, ssTracker, removeFailedServer, observed, removedBy, budget, last,
          wiggle, db, teamTrackers, teamCollections, teamSelection, recruitment, priorityOf,
          rpcs,
          removers,
          processes,
          registry,
          building,
          zoneTracking,
          lagging>>

\* what the steps of one task leave alone
exceptWiggle ==
    <<ddVars, teamTrackers, teamCollections, teamSelection, recruitment, priorityOf, rpcs,
      removers,
      processes,
      registry,
      building,
      zoneTracking,
      lagging>>
exceptTracked ==
    <<ddVars, wiggle, db, teamCollections, teamSelection, recruitment, priorityOf, rpcs,
      removers,
      processes,
      registry,
      building,
      zoneTracking,
      lagging>>
exceptTeardown ==
    <<ddVars, wiggle, db, teamTrackers, teamSelection, recruitment, priorityOf, rpcs,
      removers,
      processes,
      registry,
      building,
      zoneTracking,
      lagging>>
exceptSelection ==
    <<ddVars, wiggle, db, teamTrackers, teamCollections, recruitment, priorityOf, rpcs,
      removers,
      processes,
      registry,
      building,
      zoneTracking,
      lagging>>
exceptRecruitment ==
    <<ddVars, wiggle, db, teamTrackers, teamCollections, teamSelection, priorityOf, rpcs,
      removers,
      processes,
      registry,
      building,
      zoneTracking,
      lagging>>
exceptPriority ==
    <<ddVars, wiggle, db, teamTrackers, teamCollections, teamSelection, recruitment, rpcs,
      removers,
      processes,
      registry,
      building,
      zoneTracking,
      lagging>>
exceptRpcs ==
    <<ddVars, wiggle, db, teamTrackers, teamCollections, teamSelection, priorityOf,
      removers,
      processes,
      registry,
      building,
      zoneTracking,
      lagging>>
exceptRemovers ==
    <<ddVars, wiggle, db, teamTrackers, teamCollections, teamSelection, recruitment,
      priorityOf, rpcs,
      processes,
      registry,
      building,
      zoneTracking,
      lagging>>
exceptProcesses ==
    <<ddVars, wiggle, db, teamTrackers, teamCollections, teamSelection, recruitment,
      priorityOf, rpcs, removers,
      registry,
      building,
      zoneTracking,
      lagging>>
exceptRegistry ==
    <<ddVars, wiggle, db, teamTrackers, teamCollections, teamSelection, recruitment,
      priorityOf, rpcs, removers, processes,
      building,
      zoneTracking,
      lagging>>
exceptBuilding ==
    <<ddVars, wiggle, db, teamTrackers, teamCollections, teamSelection, recruitment,
      priorityOf, rpcs, removers, processes, registry,
      zoneTracking,
      lagging>>
exceptZoneTracking ==
    <<ddVars, wiggle, db, teamTrackers, teamCollections, teamSelection, recruitment,
      priorityOf, rpcs, removers, processes, registry, building,
      lagging>>
exceptLagging ==
    <<ddVars, wiggle, db, teamTrackers, teamCollections, teamSelection, recruitment,
      priorityOf, rpcs, removers, processes, registry, building, zoneTracking>>

RegisteredServers(tc) == {s \in Servers : tc.server_info[s].registered}

\* ---- replication policy and locality set ---------------------------------
\* IReplicationPolicy (PolicyAcross(storageTeamSize, "zoneid", PolicyOne())):
\* the entries given satisfy the policy when they lie in at least
\* storageTeamSize different zones
PolicySatisfied(entries) == Cardinality(Range(entries)) >= storageTeamSize

\* DDTeamCollection::satisfiesPolicy: evaluated on the members' localityEntry,
\* the records of storageServerSet, not on their lastKnownInterface
satisfiesPolicy(tc, team) ==
    PolicySatisfied([i \in 1 .. Len(team) |-> tc.server_info[team[i]].localityEntry])

\* DDTeamCollection::resetLocalitySet
resetLocalitySet(tc) ==
    [tc EXCEPT !.server_info =
        [s \in Servers |->
            IF tc.server_info[s].registered
            THEN [tc.server_info[s] EXCEPT !.localityEntry = tc.server_info[s].zone]
            ELSE tc.server_info[s]]]

\* ---- team tracker ----------------------------------------------------------
\* a variant of SetZeroHealthyTeams that sets nothing
leaveZeroHealthyTeams(tc, v) == tc

\* zeroHealthyTeams->set(v)
SetZeroHealthyTeams(tc, v) == [tc EXCEPT !.zeroHealthyTeams = v]

\* server_status.set(id, st)
SetServerStatus(tc, s, st) == [tc EXCEPT !.server_status[s] = st]

\* what teamTracker counts over the members of a team
serversLeft(tc, t) ==
    Cardinality({i \in 1 .. Len(tc.teamObj[t].servers) :
                    ~tc.server_status[tc.teamObj[t].servers[i]].isFailed})

anyUndesired(tc, t) ==
    \E i \in 1 .. Len(tc.teamObj[t].servers) :
        tc.server_status[tc.teamObj[t].servers[i]].isUndesired

\* wait(quorum(change, 1)) of a teamTracker: the futures that fire are onChange of
\* its members' status and of zeroHealthyTeams; a pass of the loop that finds what
\* it counted unchanged changes nothing, so the tracker has work exactly when the
\* counts differ from the ones it remembers
trackerWoken(tc, t) ==
    /\ tc.teamObj[t].tracker = "live"
    /\ \/ serversLeft(tc, t) # tc.teamObj[t].lastServersLeft
       \/ anyUndesired(tc, t) # tc.teamObj[t].lastAnyUndesired

\* one pass of teamTracker's loop body, up to its wait
teamTrackerLoop(tc, t, firstCheck) ==
    LET team == tc.teamObj[t]
        left == serversLeft(tc, t)
        undesired == anyUndesired(tc, t)
        healthy == ~team.badTeam /\ ~undesired /\ left = storageTeamSize
        \* if (firstCheck)
        count1 == IF firstCheck /\ healthy THEN tc.healthyTeamCount + 1 ELSE tc.healthyTeamCount
        tc1 == IF firstCheck /\ healthy
               THEN SetZeroHealthyTeams([tc EXCEPT !.healthyTeamCount = count1], FALSE)
               ELSE tc
        lastHealthy1 == IF firstCheck THEN healthy ELSE team.lastHealthy
        changed == left # team.lastServersLeft \/ undesired # team.lastAnyUndesired
        \* if (lastHealthy != healthy)
        count2 == IF healthy THEN count1 + 1 ELSE count1 - 1
        tc2 == IF changed /\ lastHealthy1 # healthy
               THEN SetZeroHealthyTeams(
                        [tc1 EXCEPT !.healthyTeamCount = count2,
                                    !.assertFailed = @ \/ count2 < 0],
                        count2 = 0)
               ELSE tc1
    IN [tc2 EXCEPT
          !.teamObj[t].healthy = healthy,
          !.teamObj[t].lastHealthy = IF changed THEN healthy ELSE lastHealthy1,
          !.teamObj[t].lastServersLeft = IF changed THEN left ELSE team.lastServersLeft,
          !.teamObj[t].lastAnyUndesired = IF changed THEN undesired ELSE team.lastAnyUndesired]

\* a variant of cancelTeamTracker that leaves healthyTeamCount alone
cancelWithoutCount(tc, t) ==
    IF tc.teamObj[t].tracker # "live" THEN tc ELSE [tc EXCEPT !.teamObj[t].tracker = "cancelled"]

\* team->tracker.cancel(): the catch block of teamTracker
cancelTeamTracker(tc, t) ==
    IF tc.teamObj[t].tracker # "live" THEN tc
    ELSE LET stopped == [tc EXCEPT !.teamObj[t].tracker = "cancelled"]
         IN IF tc.teamObj[t].healthy
            THEN LET count == tc.healthyTeamCount - 1
                     tc1 == [stopped EXCEPT !.healthyTeamCount = count,
                                            !.assertFailed = @ \/ count < 0]
                 IN IF count = 0 THEN SetZeroHealthyTeams(tc1, TRUE) ELSE tc1
            ELSE stopped

\* ---- machines and machine teams ------------------------------------------
FreeMachineTeamIds(tc) == {m \in MachineTeamIds : tc.machineTeamObj[m] = NoMachineTeam}

FreeTeamIds(tc) == {t \in TeamIds : tc.teamObj[t].tracker = "none"}

Lowest(S) == CHOOSE x \in S : \A y \in S : x <= y

\* DDTeamCollection::findMachineTeam: 0 is the invalid reference
findMachineTeam(tc, machineIDs) ==
    IF Len(machineIDs) = 0 THEN 0
    ELSE LET own == tc.machine_info[machineIDs[1]].machineTeams
             hits == {i \in 1 .. Len(own) : tc.machineTeamObj[own[i]].machineIDs = machineIDs}
         IN IF hits = {} THEN 0 ELSE own[Lowest(hits)]

\* DDTeamCollection::addMachineTeam (both overloads): the new machine team is
\* pushed onto the list of each of its machines, once per occurrence
RECURSIVE PushOnMachines(_, _, _, _)
PushOnMachines(mi, machines, i, m) ==
    IF i > Len(machines) THEN mi
    ELSE PushOnMachines([mi EXCEPT ![machines[i]].machineTeams = Append(@, m)], machines, i + 1, m)

\* makeReference<TCMachineTeamInfo>: the slot the next machine team takes, 0 if none is left
NewMachineTeamId(tc) ==
    IF FreeMachineTeamIds(tc) = {} THEN 0 ELSE Lowest(FreeMachineTeamIds(tc))

addMachineTeam(tc, machineIDs) ==
    IF NewMachineTeamId(tc) = 0 THEN [tc EXCEPT !.overflow = TRUE]
    ELSE LET m == NewMachineTeamId(tc)
             machines == SelectSeq(machineIDs, LAMBDA z : tc.machine_info[z].present)
         IN [tc EXCEPT
               !.machineTeamObj[m] = [machineIDs |-> SortIds(machines), serverTeams |-> <<>>],
               !.machineTeams = Append(@, m),
               !.machine_info = PushOnMachines(@, machines, 1, m)]

\* a variant of checkAndCreateMachine that does not add the server to a machine
\* that exists
createMachineOnly(tc, s) ==
    IF ~tc.machine_info[tc.server_info[s].zone].present
    THEN [tc EXCEPT
            !.machine_info[tc.server_info[s].zone] =
                [present |-> TRUE, serversOnMachine |-> <<s>>, machineTeams |-> <<>>],
            !.server_info[s].machine = tc.server_info[s].zone]
    ELSE [tc EXCEPT !.server_info[s].machine = tc.server_info[s].zone]

\* DDTeamCollection::checkAndCreateMachine
checkAndCreateMachine(tc, s) ==
    LET z == tc.server_info[s].zone
    IN IF ~tc.machine_info[z].present
       THEN [tc EXCEPT
               !.machine_info[z] = [present |-> TRUE, serversOnMachine |-> <<s>>, machineTeams |-> <<>>],
               !.server_info[s].machine = z]
       ELSE [tc EXCEPT
               !.machine_info[z].serversOnMachine = Append(@, s),
               !.server_info[s].machine = z]

\* DDTeamCollection::removeMachineTeam: by machineIDs, from the global list and
\* from the list of every machine of targetMT
RECURSIVE EraseOnMachines(_, _, _, _, _)
EraseOnMachines(tc, mi, machines, i, ids) ==
    IF i > Len(machines) THEN mi
    ELSE LET own == mi[machines[i]].machineTeams
             same == {k \in 1 .. Len(own) : tc.machineTeamObj[own[k]].machineIDs = ids}
         IN EraseOnMachines(
                tc,
                IF same = {} THEN mi
                ELSE [mi EXCEPT ![machines[i]].machineTeams = SwapRemoveAt(own, Lowest(same))],
                machines, i + 1, ids)

removeMachineTeam(tc, targetMT) ==
    LET ids == tc.machineTeamObj[targetMT].machineIDs
        same == {i \in 1 .. Len(tc.machineTeams) :
                    tc.machineTeamObj[tc.machineTeams[i]].machineIDs = ids}
    IN [tc EXCEPT
          !.machineTeams = IF same = {} THEN @ ELSE SwapRemoveAt(@, Lowest(same)),
          !.machine_info = EraseOnMachines(tc, @, ids, 1, ids)]

\* DDTeamCollection::removeMachine
RECURSIVE removeMachineTeamsOf(_, _, _)
removeMachineTeamsOf(tc, z, t) ==
    IF t > Len(tc.machineTeams) THEN tc
    ELSE IF Contains(tc.machineTeamObj[tc.machineTeams[t]].machineIDs, z)
         THEN removeMachineTeamsOf(removeMachineTeam(tc, tc.machineTeams[t]), z, t)
         ELSE removeMachineTeamsOf(tc, z, t + 1)

\* a variant of removeMachine that leaves the machine in the registry
keepMachine(tc, z) == tc

removeMachine(tc, z) ==
    LET withZ == {m \in MachineTeamIds : Contains(tc.machineTeamObj[m].machineIDs, z)}
        own == tc.machine_info[z].machineTeams
        machinesWithAjoiningTeams ==
            UNION {Range(tc.machineTeamObj[own[i]].machineIDs) : i \in 1 .. Len(own)} \ {z}
        tc1 == [tc EXCEPT !.machine_info =
                   [a \in Zones |->
                       IF a \in machinesWithAjoiningTeams
                       THEN [tc.machine_info[a] EXCEPT !.machineTeams = SwapRemoveAll(@, withZ, 1)]
                       ELSE IF a = z THEN [tc.machine_info[a] EXCEPT !.machineTeams = <<>>]
                       ELSE tc.machine_info[a]]]
        tc2 == removeMachineTeamsOf(tc1, z, 1)
    IN [tc2 EXCEPT !.machine_info[z] = NoMachineInfo]

\* a variant of checkAndCreateMachineTeam that leaves the team on its machine team
keepMachineTeam(tc, t) == tc

\* DDTeamCollection::checkAndCreateMachineTeam
checkAndCreateMachineTeam(tc, t) ==
    LET servers == tc.teamObj[t].servers
        machineIDs == SortIds([i \in 1 .. Len(servers) |-> tc.server_info[servers[i]].machine])
        found == findMachineTeam(tc, machineIDs)
        tc1 == IF found = 0 THEN addMachineTeam(tc, machineIDs) ELSE tc
        machineTeam == IF found = 0 THEN NewMachineTeamId(tc) ELSE found
    IN IF machineTeam = 0 THEN [tc1 EXCEPT !.overflow = TRUE]
       ELSE [tc1 EXCEPT !.machineTeamObj[machineTeam].serverTeams = Append(@, t),
                        !.teamObj[t].machineTeam = machineTeam]

\* ---- server teams -------------------------------------------------------
\* a variant of pushTeam that leaves the members' teams alone
pushTeamToListOnly(tc, t, newTeamServers) == [tc EXCEPT !.teams = Append(@, t)]

\* addTeam, for a good team: teams.push_back(teamInfo) and, for each member,
\* teams.push_back(teamInfo)
pushTeam(tc, t, newTeamServers) ==
    [tc EXCEPT
        !.teams = Append(@, t),
        !.server_info =
            [s \in Servers |->
                IF Contains(newTeamServers, s)
                THEN [tc.server_info[s] EXCEPT !.teams = Append(@, t)]
                ELSE tc.server_info[s]]]

\* DDTeamCollection::addTeam(newTeamServers, isInitialTeam, redundantTeam)
addTeam(tc, newTeamServers, isInitialTeam, redundantTeam) ==
    IF FreeTeamIds(tc) = {} THEN [tc EXCEPT !.overflow = TRUE]
    ELSE
    LET t == Lowest(FreeTeamIds(tc))
        badTeam == redundantTeam \/ Len(newTeamServers) # storageTeamSize
                   \/ ~satisfiesPolicy(tc, newTeamServers)
        created == [tc EXCEPT !.teamObj[t] =
                       [NoTeam EXCEPT !.servers = newTeamServers, !.healthy = TRUE,
                                      !.tracker = "live", !.badTeam = badTeam,
                                      !.lastServersLeft = Len(newTeamServers)]]
        machineIDs ==
            SortIds([i \in 1 .. Len(newTeamServers) |-> tc.server_info[newTeamServers[i]].machine])
        \* the team and its machine team refer to each other
        assigned(tc1, machineTeamInfo, found) ==
            IF machineTeamInfo = 0 THEN [tc1 EXCEPT !.overflow = TRUE]
            ELSE [tc1 EXCEPT
                    !.assertFailed = @ \/ (~isInitialTeam /\ found = 0),
                    !.teamObj[t].machineTeam = machineTeamInfo,
                    !.machineTeamObj[machineTeamInfo].serverTeams = Append(@, t)]
        \* findMachineTeam, and addMachineTeam when there is none
        withMachineTeam(tc0, found) ==
            IF found = 0 /\ Len(machineIDs) # 0
            THEN assigned(addMachineTeam(tc0, machineIDs), NewMachineTeamId(tc0), found)
            ELSE assigned(tc0, found, found)
        placed(tc0) == withMachineTeam(tc0, findMachineTeam(tc0, machineIDs))
        added(tracked) ==
            IF badTeam THEN [tracked EXCEPT !.badTeams = Append(@, t)]
            ELSE placed(pushTeam(tracked, t, newTeamServers))
    IN added(teamTrackerLoop(created, t, TRUE))

\* DDTeamCollection::removeTeam: its result is whether the team was in the list
removeTeamFound(tc, t) == Contains(tc.teams, t)

removeTeam(tc, t) ==
    LET team == tc.teamObj[t]
        found == removeTeamFound(tc, t)
        inServer == \E s \in Range(team.servers) : Contains(tc.server_info[s].teams, t)
        tc1 == [tc EXCEPT
                  !.teams = SwapRemoveFirst(@, t),
                  !.server_info =
                      [s \in Servers |->
                          IF Contains(team.servers, s)
                          THEN [tc.server_info[s] EXCEPT !.teams = SwapRemoveFirst(@, t)]
                          ELSE tc.server_info[s]],
                  !.assertFailed = @ \/ (inServer /\ ~found) \/ team.machineTeam = 0]
        tc2 == IF team.machineTeam = 0 THEN tc1
               ELSE [tc1 EXCEPT !.machineTeamObj[team.machineTeam].serverTeams =
                                     SwapRemoveFirst(@, t)]
    IN cancelTeamTracker(tc2, t)

\* ---- servers --------------------------------------------------------------
\* a variant of publishStatus that leaves unhealthyServers alone
setStatusOnly(tc, s, st) == [tc EXCEPT !.server_status[s] = st]

\* storageServerFailureTracker, from the top of its loop to its choose: the
\* unhealthyServers update against the published status, then server_status.set
publishStatus(tc, s, st) ==
    LET published == tc.server_status[s]
        delta == IF published.initialized
                 THEN (IF isUnhealthy(published) /\ ~isUnhealthy(st) THEN -1 ELSE 0)
                      + (IF ~isUnhealthy(published) /\ isUnhealthy(st) THEN 1 ELSE 0)
                 ELSE IF isUnhealthy(st) THEN 1 ELSE 0
    IN SetServerStatus([tc EXCEPT !.unhealthyServers = @ + delta], s, st)

\* DDTeamCollection::addServer up to the start of the server's tracker
addServer(tc, s, z, addedVersion) ==
    checkAndCreateMachine(
        [tc EXCEPT !.server_info[s] =
            [registered |-> TRUE, zone |-> z, localityEntry |-> z, teams |-> <<>>,
             machine |-> 0, addedVersion |-> addedVersion],
                   !.doBuildTeams = TRUE],
        s)

\* DDTeamCollection::removeServer
RECURSIVE removeTeamsOf(_, _, _)
removeTeamsOf(tc, s, t) ==
    IF t > Len(tc.teams) THEN tc
    ELSE IF Contains(tc.teamObj[tc.teams[t]].servers, s)
         THEN removeTeamsOf(removeTeam(tc, tc.teams[t]), s, t)
         ELSE removeTeamsOf(tc, s, t + 1)

\* a variant of removeBadTeamsOf that removes nothing
keepBadTeamsOf(tc, s, t) == tc

RECURSIVE removeBadTeamsOf(_, _, _)
removeBadTeamsOf(tc, s, t) ==
    IF t > Len(tc.badTeams) THEN tc
    ELSE IF Contains(tc.teamObj[tc.badTeams[t]].servers, s)
         THEN removeBadTeamsOf(
                  [cancelTeamTracker(tc, tc.badTeams[t]) EXCEPT !.badTeams = SwapRemoveAt(@, t)],
                  s, t)
         ELSE removeBadTeamsOf(tc, s, t + 1)

removeServer(tc, removedServer) ==
    LET sharedTeams == tc.server_info[removedServer].teams
        withServer == {t \in TeamIds : Contains(tc.teamObj[t].servers, removedServer)}
        serversWithAjoiningTeams ==
            UNION {Range(tc.teamObj[sharedTeams[i]].servers) : i \in 1 .. Len(sharedTeams)}
                \ {removedServer}
        tc1 == [tc EXCEPT !.server_info =
                   [o \in Servers |->
                       IF o \in serversWithAjoiningTeams
                       THEN [tc.server_info[o] EXCEPT !.teams = SwapRemoveAll(@, withServer, 1)]
                       ELSE tc.server_info[o]]]
        \* the machine goes with its last server
        offMachine(tc3, z) ==
            IF Len(tc3.machine_info[z].serversOnMachine) = 0 THEN removeMachine(tc3, z) ELSE tc3
        leftMachine(tc2, z) ==
            offMachine([tc2 EXCEPT !.machine_info[z].serversOnMachine =
                                       SwapRemoveFirst(@, removedServer)], z)
        \* server_info.erase, the unhealthyServers update, server_status.clear,
        \* doBuildTeams, resetLocalitySet
        erased(tc4) ==
            resetLocalitySet(
                [tc4 EXCEPT
                   !.server_info[removedServer] = NoServerInfo,
                   !.unhealthyServers =
                       IF tc4.server_status[removedServer].initialized
                          /\ isUnhealthy(tc4.server_status[removedServer])
                       THEN @ - 1 ELSE @,
                   !.server_status[removedServer] = DefaultServerStatus,
                   !.doBuildTeams = TRUE])
    IN erased(leftMachine(removeBadTeamsOf(removeTeamsOf(tc1, removedServer, 1), removedServer, 1),
                          tc.server_info[removedServer].machine))

\* ---- reference counting ------------------------------------------------------
\* the objects still referenced; an object nothing references is destroyed and
\* its slot is free again
RECURSIVE Referenced(_, _, _)
Referenced(tc, T, M) ==
    LET T2 == T \cup UNION {Range(tc.machineTeamObj[m].serverTeams) : m \in M}
        M2 == M \cup ({tc.teamObj[t].machineTeam : t \in T2} \ {0})
    IN IF T2 = T /\ M2 = M THEN [teams |-> T, machineTeams |-> M] ELSE Referenced(tc, T2, M2)

\* the distinct elements of a vector, in the order of their first occurrence
RECURSIVE Distinct(_)
Distinct(v) ==
    IF Len(v) = 0 THEN <<>>
    ELSE LET front == Distinct(SubSeq(v, 1, Len(v) - 1))
         IN IF Contains(front, v[Len(v)]) THEN front ELSE Append(front, v[Len(v)])

\* the elements of a set of ids as a sorted vector
RECURSIVE AsVector(_)
AsVector(S) == IF S = {} THEN <<>> ELSE <<Lowest(S)>> \o AsVector(S \ {Lowest(S)})

IndexOf(v, x) == CHOOSE i \in 1 .. Len(v) : v[i] = x

\* A reference is an opaque pointer: the slots of the two heaps are renumbered
\* in the order of the global lists, so that a state does not depend on the
\* addresses the allocator happened to hand out
DropUnreferenced(tc) ==
    LET live == Referenced(
                    tc,
                    Range(tc.teams) \cup Range(tc.badTeams)
                        \cup UNION {Range(tc.server_info[s].teams) : s \in Servers},
                    Range(tc.machineTeams)
                        \cup UNION {Range(tc.machine_info[z].machineTeams) : z \in Zones})
        teamOrder == Distinct(tc.teams \o tc.badTeams \o AsVector(live.teams))
        machineTeamOrder == Distinct(tc.machineTeams \o AsVector(live.machineTeams))
        T(v) == [i \in 1 .. Len(v) |-> IndexOf(teamOrder, v[i])]
        M(v) == [i \in 1 .. Len(v) |-> IndexOf(machineTeamOrder, v[i])]
    IN [tc EXCEPT
          !.teams = T(@),
          !.badTeams = T(@),
          !.machineTeams = M(@),
          !.server_info = [s \in Servers |-> [tc.server_info[s] EXCEPT !.teams = T(@)]],
          !.machine_info = [z \in Zones |-> [tc.machine_info[z] EXCEPT !.machineTeams = M(@)]],
          !.teamObj =
              [t \in TeamIds |->
                  IF t > Len(teamOrder) THEN NoTeam
                  ELSE [tc.teamObj[teamOrder[t]] EXCEPT
                          !.machineTeam = IF @ = 0 THEN 0 ELSE IndexOf(machineTeamOrder, @)]],
          !.machineTeamObj =
              [m \in MachineTeamIds |->
                  IF m > Len(machineTeamOrder) THEN NoMachineTeam
                  ELSE [tc.machineTeamObj[machineTeamOrder[m]] EXCEPT !.serverTeams = T(@)]]]

\* ---- storage server tracker -------------------------------------------------
targetTeamNumPerServer == (DESIRED_TEAMS_PER_SERVER * (storageTeamSize + 1)) \div 2

NoTracker == [pc |-> "absent", status |-> DefaultServerStatus, lastIsUnhealthy |-> FALSE]

\* storageServerTracker from the top of its loop to its choose: isUndesired is
\* recomputed from the exclusion map; a FAILED exclusion stops at delay(0.0) and
\* publishes nothing; otherwise a new storageServerFailureTracker publishes
storageServerTrackerLoop(tc, s, st, lastIsUnhealthy) ==
    LET worstStatus == tc.excludedServers[s]
        status == [st EXCEPT !.isUndesired = worstStatus # "NONE"]
        published == publishStatus(tc, s, status)
        rebuild == lastIsUnhealthy /\ ~isUnhealthy(status)
                   /\ (Len(tc.server_info[s].teams) < targetTeamNumPerServer
                       \/ tc.lastBuildTeamsFailed)
    IN IF worstStatus = "FAILED"
       THEN [tc |-> tc,
             tracker |-> [pc |-> "failedDelay", status |-> status,
                          lastIsUnhealthy |-> lastIsUnhealthy]]
       ELSE [tc |-> [published EXCEPT !.doBuildTeams = @ \/ rebuild],
             tracker |-> [pc |-> "tracking", status |-> status,
                          lastIsUnhealthy |-> isUnhealthy(status)]]

\* addServer with the synchronous start of the new server's tracker
addServerAndTrack(tc, s, z, addedVersion) ==
    storageServerTrackerLoop(addServer(tc, s, z, addedVersion), s,
                             ServerStatus(FALSE, FALSE, z), FALSE)

\* storageServerTracker, when(interfaceChanged): the server's zoneId changed
RECURSIVE reclassifyTeams(_, _, _, _)
reclassifyTeams(tc, s, i, newBadTeams) ==
    LET serverTeams == tc.server_info[s].teams
    IN IF i > Len(serverTeams) THEN [tc |-> tc, newBadTeams |-> newBadTeams]
       ELSE IF ~satisfiesPolicy(tc, tc.teamObj[serverTeams[i]].servers)
            THEN reclassifyTeams(tc, s, i + 1, Append(newBadTeams, serverTeams[i]))
            ELSE reclassifyTeams(checkAndCreateMachineTeam(tc, serverTeams[i]), s, i + 1,
                                 newBadTeams)

RECURSIVE readdBadTeams(_, _, _, _)
readdBadTeams(tc, newBadTeams, i, addedNewBadTeam) ==
    IF i > Len(newBadTeams) THEN [tc |-> tc, addedNewBadTeam |-> addedNewBadTeam]
    ELSE IF removeTeamFound(tc, newBadTeams[i])
         THEN readdBadTeams(
                  addTeam(removeTeam(tc, newBadTeams[i]), tc.teamObj[newBadTeams[i]].servers,
                          TRUE, FALSE),
                  newBadTeams, i + 1, TRUE)
         ELSE readdBadTeams(removeTeam(tc, newBadTeams[i]), newBadTeams, i + 1, addedNewBadTeam)

interfaceChanged(tc, s, newZone) ==
    LET machine == tc.server_info[s].machine
        \* the server leaves its machine, which goes with its last server
        leftMachine(tc0) ==
            IF Len(tc0.machine_info[machine].serversOnMachine) = 1
            THEN [removeMachine(tc0, machine) EXCEPT !.server_info[s].machine = 0]
            ELSE [tc0 EXCEPT !.machine_info[machine].serversOnMachine = SwapRemoveFirst(@, s)]
        \* the bad team remover is restarted when a bad team was added
        restarted(readded) ==
            [readded.tc EXCEPT
                !.badTeamRemover =
                    IF readded.addedNewBadTeam /\ @ = "ready" THEN "waitHealthy" ELSE @,
                !.doBuildTeams = TRUE]
        \* resetLocalitySet, then the teams that failed the policy are re-added
        readded(checked) ==
            restarted(readdBadTeams(resetLocalitySet(checked.tc), checked.newBadTeams, 1, FALSE))
    IN readded(reclassifyTeams(
                   checkAndCreateMachine(leftMachine([tc EXCEPT !.server_info[s].zone = newZone]), s),
                   s, 1, <<>>))

\* a variant of waitForAllDataRemoved that does not look at the read version
waitForShardsOnly(addedVersion, ver, canRemove, numberOfShards) ==
    canRemove /\ numberOfShards = 0

\* waitForAllDataRemoved: whether it returns, given what it read
waitForAllDataRemoved(addedVersion, ver, canRemove, numberOfShards) ==
    ver > addedVersion + MAX_READ_TRANSACTION_LIFE_VERSIONS /\ canRemove /\ numberOfShards = 0

\* removeBadTeams, after its waits
RECURSIVE cancelTrackers(_, _, _)
cancelTrackers(tc, list, i) ==
    IF i > Len(list) THEN tc ELSE cancelTrackers(cancelTeamTracker(tc, list[i]), list, i + 1)

removeBadTeams(tc) ==
    [cancelTrackers(tc, tc.badTeams, 1) EXCEPT !.badTeams = <<>>, !.badTeamRemover = "ready"]

\* DDTeamCollection::~DDTeamCollection: the trackers of teams and bad teams are cancelled
destroyCollection(tc) == cancelTrackers(cancelTrackers(tc, tc.teams, 1), tc.badTeams, 1)

\* ---- team builder -----------------------------------------------------------
Max(a, b) == IF a >= b THEN a ELSE b

Min(a, b) == IF a <= b THEN a ELSE b

HealthyServers(tc) == {s \in RegisteredServers(tc) : ~isUnhealthy(tc.server_status[s])}

\* DDTeamCollection::isMachineHealthy
isMachineHealthy(tc, z) ==
    /\ tc.machine_info[z].present
    /\ \E s \in Range(tc.machine_info[z].serversOnMachine) : ~isUnhealthy(tc.server_status[s])

\* DDTeamCollection::isMachineTeamHealthy
isMachineTeamHealthy(tc, m) ==
    /\ Len(tc.machineTeamObj[m].machineIDs) = storageTeamSize
    /\ \A z \in Range(tc.machineTeamObj[m].machineIDs) : isMachineHealthy(tc, z)

HealthyMachines(tc) == {z \in Zones : isMachineHealthy(tc, z)}

\* DDTeamCollection::getHealthyMachineTeamCount
getHealthyMachineTeamCount(tc) ==
    Cardinality({i \in 1 .. Len(tc.machineTeams) : isMachineTeamHealthy(tc, tc.machineTeams[i])})

\* DDTeamCollection::notEnoughMachineTeamsForAMachine
notEnoughMachineTeamsForAMachine(tc) ==
    \E z \in HealthyMachines(tc) : Len(tc.machine_info[z].machineTeams) < targetTeamNumPerServer

\* DDTeamCollection::notEnoughTeamsForAServer
notEnoughTeamsForAServer(tc) ==
    \E s \in HealthyServers(tc) : Len(tc.server_info[s].teams) < targetTeamNumPerServer

\* sorted vectors of n ids drawn from S
SortedVectors(S, n) == {v \in [1 .. n -> S] : \A i \in 1 .. n - 1 : v[i] < v[i + 1]}

\* addSubsetOfEmergencyTeams: for each bad team, a team of its healthy members
\* is added when no existing team lies within them
RECURSIVE addSubsetOfEmergencyTeams(_, _)
addSubsetOfEmergencyTeams(tc, idx) ==
    IF idx > Len(tc.badTeams) THEN tc
    ELSE
    LET servers == SelectSeq(tc.teamObj[tc.badTeams[idx]].servers,
                             LAMBDA s : ~isUnhealthy(tc.server_status[s]))
        foundTeam ==
            \E j \in 1 .. Len(servers) - storageTeamSize + 1 :
                \E k \in 1 .. Len(tc.server_info[servers[j]].teams) :
                    Range(tc.teamObj[tc.server_info[servers[j]].teams[k]].servers)
                        \subseteq Range(servers)
        subsets == {v \in SortedVectors(Range(servers), storageTeamSize) :
                       PolicySatisfied([i \in 1 .. storageTeamSize |-> tc.server_info[v[i]].zone])}
        firstServers == SubSeq(servers, 1, storageTeamSize)
    IN addSubsetOfEmergencyTeams(
           IF Len(servers) >= storageTeamSize /\ ~foundTeam /\ satisfiesPolicy(tc, servers)
           THEN addTeam(tc,
                        IF Len(servers) = storageTeamSize \/ satisfiesPolicy(tc, firstServers)
                        THEN firstServers ELSE CHOOSE v \in subsets : TRUE,
                        TRUE, FALSE)
           ELSE tc,
           idx + 1)

\* checkBuildTeams, interruptableBuildTeams and buildTeams up to the loops of
\* addTeamsBestOf
NoBuild ==
    [pc |-> "idle", machineTeamsToBuild |-> 0, addedMachineTeams |-> 0,
     teamsToBuild |-> 0, addedTeams |-> 0]

buildTeamsBegin(tc) ==
    LET \* addSubsetComplete is sent: removeBadTeams, if it waits for it, goes on
        sent(tcB) == IF tcB.badTeamRemover = "waitSubset" THEN removeBadTeams(tcB) ELSE tcB
        subsetAdded(tcA) ==
            IF tcA.addSubsetComplete THEN tcA
            ELSE sent([addSubsetOfEmergencyTeams(tcA, 1) EXCEPT !.addSubsetComplete = TRUE])
        counted(tcC) ==
            LET serverCount == Cardinality(HealthyServers(tcC))
                uniqueMachines ==
                    Cardinality({tcC.server_info[s].zone : s \in HealthyServers(tcC)})
                desiredTeams == DESIRED_TEAMS_PER_SERVER * serverCount
                maxTeams == MAX_TEAMS_PER_SERVER * serverCount
                teamCount ==
                    Cardinality({i \in 1 .. Len(tcC.teams) : tcC.teamObj[tcC.teams[i]].healthy})
                teamsToBuild == Max(0, Min(desiredTeams - teamCount, maxTeams - Len(tcC.teams)))
                totalHealthyMachineCount == Cardinality(HealthyMachines(tcC))
                machineTeamsToBuild ==
                    Max(0, Min(DESIRED_TEAMS_PER_SERVER * totalHealthyMachineCount
                                   - getHealthyMachineTeamCount(tcC),
                               MAX_TEAMS_PER_SERVER * totalHealthyMachineCount
                                   - Len(tcC.machineTeams)))
            IN IF uniqueMachines < storageTeamSize
               THEN [tc |-> [tcC EXCEPT !.lastBuildTeamsFailed = TRUE], build |-> NoBuild]
               ELSE IF ~(teamsToBuild > 0 \/ notEnoughTeamsForAServer(tcC))
               THEN [tc |-> [tcC EXCEPT !.lastBuildTeamsFailed = FALSE], build |-> NoBuild]
               ELSE [tc |-> [tcC EXCEPT !.lastBuildTeamsFailed = FALSE],
                     build |-> [pc |-> IF machineTeamsToBuild > 0
                                          \/ notEnoughMachineTeamsForAMachine(tcC)
                                       THEN "machineTeams" ELSE "serverTeams",
                                machineTeamsToBuild |-> machineTeamsToBuild,
                                addedMachineTeams |-> 0,
                                teamsToBuild |-> teamsToBuild, addedTeams |-> 0]]
    IN counted(subsetAdded([tc EXCEPT !.doBuildTeams = FALSE]))

\* DDTeamCollection::overlappingMachineMembers(team) == team.size(), for sorted ids
machineTeamExists(tc, machineIDs) ==
    \E i \in 1 .. Len(tc.machine_info[machineIDs[1]].machineTeams) :
        tc.machineTeamObj[tc.machine_info[machineIDs[1]].machineTeams[i]].machineIDs = machineIDs

\* addBestMachineTeams: what one pass of its while loop can do
addBestMachineTeamsStep(tc, b) ==
    LET healthy == HealthyMachines(tc)
        leastUsedMachines ==
            {z \in healthy : \A y \in healthy :
                Len(tc.machine_info[z].machineTeams) <= Len(tc.machine_info[y].machineTeams)}
        picks == {v \in SortedVectors(healthy, storageTeamSize) :
                     Range(v) \cap leastUsedMachines # {}}
        fresh == {v \in picks : ~machineTeamExists(tc, v)}
        \* no team is bestTeam after the draws: every draw fails, or each of 100 draws
        \* gives a machine team that exists
        canFail == fresh = {} \/ \E v \in picks : machineTeamExists(tc, v)
        toServerTeams == [b EXCEPT !.pc = "serverTeams"]
    IN IF ~(b.addedMachineTeams < b.machineTeamsToBuild \/ notEnoughMachineTeamsForAMachine(tc))
          \/ leastUsedMachines = {}
       THEN {[tc |-> tc, build |-> toServerTeams]}
       ELSE {[tc |-> addMachineTeam(tc, v),
              build |-> [b EXCEPT !.addedMachineTeams = @ + 1]] : v \in fresh}
            \cup (IF canFail
                  THEN {[tc |-> [tc EXCEPT !.lastBuildTeamsFailed = TRUE], build |-> toServerTeams]}
                  ELSE {})

\* DDTeamCollection::overlappingMembers(team) == team.size(), for sorted ids
teamNeverExists(tc, serverTeam) == FALSE

teamExists(tc, serverTeam) ==
    \E i \in 1 .. Len(tc.server_info[serverTeam[1]].teams) :
        tc.teamObj[tc.server_info[serverTeam[1]].teams[i]].servers = serverTeam

\* addTeamsBestOf: what one pass of its while loop can do
addTeamsBestOfGivesUp(tc, b) ==
    {[tc |-> [tc EXCEPT !.lastBuildTeamsFailed = TRUE], build |-> NoBuild]}

addTeamsBestOfStep(tc, b) ==
    LET healthy == HealthyServers(tc)
        leastUsedServers ==
            {s \in healthy : \A o \in healthy :
                Len(tc.server_info[s].teams) <= Len(tc.server_info[o].teams)}
        \* findOneRandomMachineTeam
        machineTeamsFor(s) ==
            {m \in Range(tc.machine_info[tc.server_info[s].machine].machineTeams) :
                isMachineTeamHealthy(tc, m)}
        \* one healthy process of every machine of the machine team, the chosen
        \* server on its own machine
        teamsFrom(s, m) ==
            LET ids == tc.machineTeamObj[m].machineIDs
            IN {v \in [1 .. Len(ids) -> Servers] :
                   \A i \in 1 .. Len(ids) :
                       IF ids[i] = tc.server_info[s].machine THEN v[i] = s
                       ELSE v[i] \in Range(tc.machine_info[ids[i]].serversOnMachine)
                            /\ ~isUnhealthy(tc.server_status[v[i]])}
        \* ASSERT(chosenServerCount == 1)
        usedOnce(s, m) == Count(tc.machineTeamObj[m].machineIDs, tc.server_info[s].machine) = 1
        canAssert == \E s \in leastUsedServers : \E m \in machineTeamsFor(s) : ~usedOnce(s, m)
        picks ==
            {SortIds(v) : v \in UNION {UNION {teamsFrom(s, m) :
                              m \in {n \in machineTeamsFor(s) : usedOnce(s, n)}} :
                              s \in leastUsedServers}}
        fresh == {v \in picks : ~teamExists(tc, v)}
        \* no team is bestServerTeam after the draws: BEST_OF_AMT draws of a server
        \* with no healthy machine team, or 100 draws each of which gives a team that
        \* exists
        canFail == \/ fresh = {}
                   \/ \E s \in leastUsedServers : machineTeamsFor(s) = {}
                   \/ \E v \in picks : teamExists(tc, v)
    IN IF ~(b.addedTeams < b.teamsToBuild \/ notEnoughTeamsForAServer(tc))
          \/ leastUsedServers = {}
       THEN {[tc |-> tc, build |-> NoBuild]}
       ELSE {[tc |-> addTeam(tc, v, FALSE, FALSE),
              build |-> [b EXCEPT !.addedTeams = @ + 1]] : v \in fresh}
            \cup (IF canFail
                  THEN {[tc |-> [tc EXCEPT !.lastBuildTeamsFailed = TRUE], build |-> NoBuild]}
                  ELSE {})
            \cup (IF canAssert
                  THEN {[tc |-> [tc EXCEPT !.assertFailed = TRUE], build |-> NoBuild]}
                  ELSE {})

\* the loops of addBestMachineTeams and addTeamsBestOf, run to their end
RECURSIVE buildTeamsLoops(_, _)
buildTeamsLoops(tc, b) ==
    IF b.pc = "idle" \/ tc.overflow THEN {tc}
    ELSE UNION {buildTeamsLoops(r.tc, r.build) :
                   r \in IF b.pc = "machineTeams" THEN addBestMachineTeamsStep(tc, b)
                         ELSE addTeamsBestOfStep(tc, b)}

\* buildTeams, from the top of its body to its delay: the collections it can leave
buildTeams(tc) ==
    LET r == buildTeamsBegin(tc) IN buildTeamsLoops(r.tc, r.build)

\* ---- initial data distribution ---------------------------------------------
\* what DDTeamCollection::init loads: the zoneId of each server of the server
\* list (servers 1 .. Len(zone)) and the teams read from the key-server map
InitialDataDistributions ==
    {c \in {[zone |-> <<>>, teams |-> <<>>],
            [zone |-> <<1, 2>>, teams |-> << <<1, 2>> >>],
            [zone |-> <<1, 1, 2>>, teams |-> << <<1, 2>>, <<1, 3>> >>],
            [zone |-> <<1, 2, 2>>, teams |-> << <<1, 2, 3>> >>]} :
        Len(c.zone) <= NumServers /\ Range(c.zone) \subseteq Zones}

RECURSIVE initServers(_, _, _, _)
initServers(tc, trackers, zone, i) ==
    IF i > Len(zone) THEN [tc |-> tc, trackers |-> trackers]
    ELSE LET r == addServerAndTrack(tc, i, zone[i], 0)
         IN initServers(r.tc, [trackers EXCEPT ![i] = r.tracker], zone, i + 1)

RECURSIVE initTeams(_, _, _)
initTeams(tc, teams, i) ==
    IF i > Len(teams) THEN tc
    ELSE initTeams(
             addTeam(tc, SelectSeq(teams[i], LAMBDA s : tc.server_info[s].registered), TRUE, FALSE),
             teams, i + 1)

\* ---- state and steps --------------------------------------------------------
\* ---- team trackers with their whole accounting: state ---------------------------
\* the relocation priorities the tracker gives a team
PRIORITY ==
    [PERPETUAL_STORAGE_WIGGLE |-> 139, TEAM_HEALTHY |-> 140,
     TEAM_CONTAINS_UNDESIRED_SERVER |-> 150, TEAM_REDUNDANT |-> 200,
     POPULATE_REGION |-> 600, TEAM_UNHEALTHY |-> 700, TEAM_2_LEFT |-> 709,
     TEAM_1_LEFT |-> 800, TEAM_0_LEFT |-> 809]

Priorities == {PRIORITY[n] : n \in DOMAIN PRIORITY}

TrackedTeamIds == 1 .. NumServers - 1

\* what the last round of a tracker read and sent: whether it found a change, the
\* values of its condition for relocations, and the RelocateShards it sent
NoRound ==
    [changed |-> FALSE, ready |-> FALSE, zeroHealthyTeams |-> FALSE, containsFailed |-> FALSE,
     shards |-> <<>>, output |-> <<>>]

\* the teams tracked, as TCTeamInfo's constructor leaves them, and the locals of
\* a teamTracker that has not started
TrackedTeam(servers) ==
    [servers |-> servers, healthy |-> TRUE, wrongConfiguration |-> FALSE,
     priority |-> PRIORITY.TEAM_HEALTHY, tracker |-> "none", badTeam |-> FALSE,
     redundantTeam |-> FALSE, woken |-> FALSE, logTeamEvents |-> FALSE,
     lastServersLeft |-> 0, lastAnyUndesired |-> FALSE, lastAnyWigglingServer |-> FALSE,
     lastWrongConfiguration |-> FALSE, lastReady |-> FALSE, lastHealthy |-> FALSE,
     lastOptimal |-> FALSE, lastZeroHealthy |-> FALSE, zeroServerLeftLogger |-> "none",
     zeroServerLeftInTeam |-> 0, listed |-> FALSE, round |-> NoRound]

TrackedStatus(isFailed, isUndesired, isWrongConfiguration, isWiggling) ==
    [isFailed |-> isFailed, isUndesired |-> isUndesired,
     isWrongConfiguration |-> isWrongConfiguration, isWiggling |-> isWiggling]

NoTracked ==
    [team |-> [t \in TrackedTeamIds |-> TrackedTeam(<<t, t + 1>>)],
     server_status |-> [s \in Servers |-> TrackedStatus(FALSE, FALSE, FALSE, FALSE)],
     storageClass |-> [s \in Servers |-> TRUE],
     failedExclusion |-> {},
     initialFailureReactionDelay |-> FALSE,
     healthyTeamCount |-> 0,
     zeroHealthyTeams |-> TRUE,
     optimalTeamCount |-> 0,
     zeroOptimalTeams |-> TRUE,
     priority_teams |-> [p \in Priorities |-> 0],
     budget |-> MaxStatusChanges,
     failures |-> MaxFailures,
     shardTeams |-> [sh \in 1 .. NumShards |-> <<>>],
     remote |-> [alive |-> TRUE, priority |-> PRIORITY.TEAM_HEALTHY],
     moves |-> MaxShardMoves]

\* dataDistributionTeamCollection has started waitServerListChange, which waits for
\* SERVER_LIST_DELAY, and trackExcludedServers, which reads; no server is polled yet
NoRpcs ==
    [metrics |-> "none", serverList |-> "delay", excluded |-> "reading", error |-> FALSE,
     replies |-> MaxRpcReplies, last |-> [task |-> "none", result |-> "none"]]

\* no tracker has looked at a team yet
NoPriority ==
    [statuses |-> <<>>, storageTeamSize |-> 0, badTeam |-> FALSE, redundantTeam |-> FALSE,
     priority |-> 0]

\* ---- the collections of the two regions: state -----------------------------------
Regions == {"primary", "remote"}

\* dataDistribution: both collections are made and know each other; of a collection
\* only its actors matter here: the team builder, the trackers of its teams, bad
\* teams and servers, each "none", "running", "thrown" or "cancelled"
NoCollections ==
    [c \in Regions |->
        [alive |-> TRUE,
         teamBuilder |-> "ready",
         teams |-> [t \in 1 .. MaxTornDown |-> "none"],
         badTeams |-> [t \in 1 .. MaxTornDown |-> "none"],
         server_and_tss_info |-> [t \in 1 .. MaxTornDown |-> "none"],
         teamCollections |-> [d \in Regions |-> d],
         useAfterFree |-> FALSE,
         destructed |-> <<>>]]

\* ---- perpetual storage wiggle: state --------------------------------------------
\* Every storage process is its own machine and hosts one storage server; a process
\* ID is a number, and 0 is the empty string. There are as many addresses as processes.
Pids == 1 .. NumPids
Addresses == 1 .. NumPids

\* an Optional without a value
NoValue == -1

\* a future that is never ready
Never == [set |-> FALSE, waiting |-> {}]

\* the fields of the collection the wiggle uses, after the constructor, and the
\* actors of the wiggle before monitorPerpetualStorageWiggle has read its key
NoWiggle ==
    [wigglingPid |-> NoValue,
     pauseWiggle |-> TRUE,
     wiggle_addresses |-> {},
     excludedServers |-> [a \in Addresses |-> "NONE"],
     pid2server_info |-> Pids,
     address |-> [pid \in Pids |-> pid],
     healthyTeamCount |-> NumWiggleTeams,
     doBuildTeams |-> TRUE,
     monitor |-> "read",
     speed |-> 0,
     stopWiggleSignal |-> TRUE,
     keyWatch |-> FALSE,
     finishStorageWiggleSignal |-> 0,
     wiggler |-> "off",
     wake |-> FALSE,
     watchFuture |-> FALSE,
     moveFinishFuture |-> Never,
     res |-> [fired |-> FALSE, value |-> 0],
     extraTeamCount |-> 0,
     pausePenalty |-> 1,
     iterator |-> "off",
     iteratorWake |-> FALSE,
     assertFailed |-> FALSE,
     presentAssertFailed |-> FALSE,
     wiggles |-> 0,
     teams |-> {team \in SUBSET Pids : Cardinality(team) = storageTeamSize},
     teamsBefore |-> {team \in SUBSET Pids : Cardinality(team) = storageTeamSize},
     removedSince |-> "no",
     budget |-> MaxWiggleEvents]

\* perpetualStorageWiggleKey and wigglingStorageServerKey of this region
NoKeys == [perpetualStorageWiggle |-> "", wigglingStorageServer |-> NoValue, writes |-> 0]

\* ---- what getTeam reads ----------------------------------------------------
\* an empty Optional<Reference<IDataDistributionTeam>>, and an empty serverMetrics
NoOption == <<>>
NoMetrics == [present |-> FALSE]

\* teams holds [serverIDs, healthy] in the order of DDTeamCollection::teams and
\* serverTeams the serverIDs of TCServerInfo::teams; indices count from 0 as in the code
NoSelection ==
    [teams |-> <<>>,
     serverTeams |-> [s \in 1 .. NumSelectionServers |-> <<>>],
     serverMetrics |-> [s \in 1 .. NumSelectionServers |-> NoMetrics],
     shards |-> {},
     healthyTeamCount |-> 0,
     zeroHealthyTeams |-> TRUE,
     medianAvailableSpace |-> MIN_AVAILABLE_SPACE_RATIO,
     elapsed |-> FALSE,
     lowestUtilizationTeam |-> 0,
     highestUtilizationTeam |-> 0,
     bestTeamKeepStuckCount |-> 0,
     req |-> [wantsNewServers |-> FALSE, wantsTrueBest |-> FALSE,
              preferLowerUtilization |-> FALSE, teamMustHaveShards |-> FALSE,
              completeSources |-> <<>>],
     reply |-> NoOption,
     replyHealthy |-> FALSE,
     replyZeroHealthyTeams |-> FALSE,
     fallback |-> FALSE,
     repeated |-> FALSE,
     changed |-> FALSE,
     calls |-> 0,
     budget |-> MaxSelectionEvents]

\* ---- recruitment ---------------------------------------------------------------
\* a TSSPairState made by its default constructor, and the place of an
\* initializeStorage actor that was not started; the pair state that the recruiter
\* makes for the TSS half started as actor i is pairs[i], and 0 names a state that is
\* not active
NoPair ==
    [active |-> FALSE, zone |-> 0, ss |-> 0, ssPairInfo |-> "unset", tssPairDone |-> "unset",
     complete |-> FALSE]
NoActor ==
    [address |-> 0, recruitTss |-> FALSE, tssState |-> 0, pc |-> "none", prepared |-> FALSE,
     newServer |-> "none", tssSuccessful |-> "none"]

\* existing and failedOn count, for each address, the servers of server_and_tss_info
\* whose ServerStatus has excludeOnRecruit and those that are failed
NoRecruitment ==
    [existing |-> [a \in 1 .. NumRecruitAddresses |-> 0],
     failedOn |-> [a \in 1 .. NumRecruitAddresses |-> 0],
     tss_info_by_pair |-> 0,
     recruitingLocalities |-> {},
     recruitingIds |-> {},
     recruitingStream |-> 0,
     healthyTeamCount |-> 0,
     zeroHealthyTeams |-> TRUE,
     isTssRecruiting |-> FALSE,
     restartRecruiting |-> FALSE,
     recruiter |-> "start",
     fCandidateWorker |-> "invalid",
     lastRequest |-> [excludeAddresses |-> {}, criticalRecruitment |-> FALSE],
     numSSPerAddr |-> [a \in 1 .. NumRecruitAddresses |-> 0],
     hasHealthyTeam |-> FALSE,
     tssToRecruit |-> 0,
     inProgressTSSCount |-> 0,
     tssState |-> 0,
     checkTss |-> "ready",
     pendingTSSCheck |-> FALSE,
     zeroHealthyChanged |-> FALSE,
     pairs |-> [i \in 1 .. MaxRecruits |-> NoPair],
     actors |-> [i \in 1 .. MaxRecruits |-> NoActor],
     started |-> 0,
     sent |-> [address |-> 0, numExistingSS |-> 0],
     error |-> FALSE,
     budget |-> MaxRecruitEvents]

\* ---- what the team removers read ----------------------------------------------
RemoverServers == 1 .. NumRemoverServers

\* an actor that waits in waitUntilHealthy, with the waitCount of that call
NoRemover == [pc |-> "off", waitCount |-> 0]

\* every server is on a machine of its own, so that a machine team has the IDs of
\* its servers and at most one server team
NoRemovers ==
    [teams |-> {},
     badTeams |-> {},
     machineTeams |-> {},
     failed |-> {},
     zeroHealthyTeams |-> FALSE,
     processingUnhealthy |-> FALSE,
     addSubsetComplete |-> FALSE,
     doBuildTeams |-> FALSE,
     badTeamRemover |-> NoRemover,
     serverTeamRemover |-> NoRemover,
     machineTeamRemover |-> NoRemover,
     last |-> [by |-> "none", zeroHealthyTeams |-> FALSE, processingUnhealthy |-> FALSE],
     budget |-> MaxRemoverEvents]

\* ---- pid2server_info ------------------------------------------------------------
ProcessServers == 1 .. NumProcessServers
ProcessIds == 1 .. NumProcessIds

\* state is "new" for an ID the collection has not seen, "registered" while the
\* server is in server_and_tss_info, "removed" after; processId is that of
\* lastKnownInterface. marked is history: the servers the wiggler excluded last
NoProcesses ==
    [server |-> [s \in ProcessServers |->
                    [state |-> "new", isTss |-> FALSE, processId |-> 0]],
     pid2server_info |-> [pid \in ProcessIds |-> <<>>],
     wigglingPid |-> 0,
     marked |-> {}]

\* ---- the registry of servers and its two writers ---------------------------------
ListedServers == 1 .. NumListedServers

\* records counts, for each server ID, the TCServerInfo records made for it with the
\* trackers they start; task is where the initializeStorage of that interface ID is;
\* results is the answer of getServerListAndProcessClasses that waitServerListChange
\* waits for
NoRegistry ==
    [serverList |-> {},
     recruitingIds |-> {},
     records |-> [id \in ListedServers |-> 0],
     task |-> [id \in ListedServers |-> "none"],
     fetching |-> FALSE,
     results |-> [read |-> FALSE, ids |-> {}],
     reads |-> 0,
     last |-> [by |-> "none", id |-> 0, recruiting |-> FALSE, registered |-> FALSE]]

\* ---- the team builder and its callers ----------------------------------------------
BuildCallers == 1 .. NumBuildCallers
Builders == 1 .. MaxBuilders

\* teamBuilder is the number of the interruptableBuildTeams actor that the future
\* teamBuilder belongs to, 0 when that future is ready; builder holds, for each
\* such actor, where it waits; caller holds where each call of checkBuildTeams
\* waits and for which actor
NoBuilding ==
    [teamBuilder |-> 0,
     builder |-> [b \in Builders |-> "none"],
     started |-> 0,
     passes |-> 0,
     doBuildTeams |-> TRUE,
     readyToStart |-> FALSE,
     checkTeamDelay |-> FALSE,
     addSubsetComplete |-> FALSE,
     caller |-> [c \in BuildCallers |-> [pc |-> "idle", waitsFor |-> 0]],
     budget |-> MaxBuildEvents]

\* ---- the healthy zone and the failure trackers -------------------------------------
ZoneServers == 1 .. NumZoneServers
ignoreSSFailuresZoneString == "ignoreSSFailures"
noZone == "none"
zoneIdOf(s) == IF s = 1 THEN "zone1" ELSE "zone2"
HealthyZoneValues == {noZone, ignoreSSFailuresZoneString} \cup {zoneIdOf(s) : s \in {1}}

\* the servers form one team of the good-team list; status[s] is the ServerStatus
\* that storageServerTracker owns, server_status[s] the one the collection holds;
\* down[s] is what the failure monitor says; asserted is history
NoZoneTracking ==
    [healthyZone |-> noZone,
     status |-> [s \in ZoneServers |-> [isFailed |-> FALSE, isUndesired |-> FALSE]],
     server_status |-> [s \in ZoneServers |-> [isFailed |-> FALSE, isUndesired |-> FALSE]],
     inHealthyZone |-> [s \in ZoneServers |-> FALSE],
     down |-> [s \in ZoneServers |-> FALSE],
     tracker |-> [s \in ZoneServers |-> "tracking"],
     clearHealthyZoneFuture |-> "ready",
     teamTracker |-> "waiting",
     asserted |-> "none",
     budget |-> MaxZoneEvents]

\* ---- lagging storage servers --------------------------------------------------------
LagServers == 1 .. NumLagServers
LagZones == 1 .. NumLagZones

\* lagging_zones[z] = 0 stands for a zone that is not in the map; zoneId is that of
\* the server's lastKnownInterface; assertFailed is history
NoLagging ==
    [server |-> [s \in LagServers |->
                    [registered |-> FALSE, isTss |-> FALSE, zoneId |-> 1,
                     ssVersionTooFarBehind |-> FALSE]],
     lagging_zones |-> [z \in LagZones |-> 0],
     disableFailingLaggingServers |-> FALSE,
     assertFailed |-> FALSE,
     budget |-> MaxLagEvents]

Init ==
    /\ self = NewCollection
    /\ phase = "constructed"
    /\ ssTracker = [s \in Servers |-> NoTracker]
    /\ removeFailedServer = 0
    /\ observed = [s \in Servers |-> [version |-> FALSE, noShards |-> FALSE]]
    /\ removedBy = [s \in Servers |-> "none"]
    /\ budget = MaxEnvSteps
    /\ last = [op |-> "construct", server |-> 0]
    /\ wiggle = NoWiggle
    /\ db = NoKeys
    /\ teamTrackers = NoTracked
    /\ teamCollections = NoCollections
    /\ teamSelection = NoSelection
    /\ recruitment = NoRecruitment
    /\ priorityOf = NoPriority
    /\ rpcs = NoRpcs
    /\ removers = NoRemovers
    /\ processes = NoProcesses
    /\ registry = NoRegistry
    /\ building = NoBuilding
    /\ zoneTracking = NoZoneTracking
    /\ lagging = NoLagging

\* the collection is running and no actor is in the middle of a step
Running == phase = "running" /\ ~self.assertFailed

AtYield == Running

\* the collection after a step: objects nothing references are gone; a step that
\* needs more objects than the heaps hold is not taken
Commit(tc) == ~tc.overflow /\ self' = DropUnreferenced(tc)

\* dataDistributionTeamCollection: init, then the bad team remover is started
DDInit(c) ==
    /\ phase = "constructed"
    /\ LET loaded == initServers(self, ssTracker, c.zone, 1)
           tc == initTeams(loaded.tc, c.teams, 1)
       IN /\ Commit([tc EXCEPT !.badTeamRemover = "waitHealthy"])
          /\ ssTracker' = loaded.trackers
    /\ phase' = "running"
    /\ last' = [op |-> "DDInit", server |-> 0]
    /\ UNCHANGED otherVars
    /\ UNCHANGED <<removeFailedServer, observed, removedBy, budget>>

\* ids are never reused; a new storage server takes the lowest id not seen so far
UnusedIds == {s \in Servers : ssTracker[s].pc = "absent" /\ s \notin self.recruitingIds}

\* waitServerListChange: a server of the server list that is neither registered
\* nor being recruited is added
AddServerFromList(s, z, ver) ==
    /\ AtYield /\ budget > 0
    /\ ssTracker[s].pc = "absent" /\ s \notin self.recruitingIds
    /\ s = Lowest(UnusedIds)
    /\ LET r == addServerAndTrack(self, s, z, ver)
       IN Commit(r.tc) /\ ssTracker' = [ssTracker EXCEPT ![s] = r.tracker]
    /\ budget' = budget - 1
    /\ last' = [op |-> "AddServerFromList", server |-> s]
    /\ UNCHANGED otherVars
    /\ UNCHANGED <<phase, removeFailedServer, observed, removedBy>>

\* initializeStorage up to the request: a new interface id is recruiting
RecruitStart(s) ==
    /\ AtYield /\ budget > 0
    /\ ssTracker[s].pc = "absent" /\ s \notin self.recruitingIds
    /\ s = Lowest(UnusedIds)
    /\ Commit([self EXCEPT !.recruitingIds = @ \cup {s}])
    /\ budget' = budget - 1
    /\ last' = [op |-> "RecruitStart", server |-> s]
    /\ UNCHANGED otherVars
    /\ UNCHANGED <<phase, ssTracker, removeFailedServer, observed, removedBy>>

\* initializeStorage from the reply on: the id stops recruiting and, if a
\* server came back and is not registered yet, it is added
RecruitReply(s, present, z, ver) ==
    /\ AtYield
    /\ s \in self.recruitingIds
    /\ LET erased == [self EXCEPT !.recruitingIds = @ \ {s}, !.doBuildTeams = TRUE]
           r == addServerAndTrack(erased, s, z, ver)
       IN IF present /\ ~self.server_info[s].registered
          THEN Commit(r.tc) /\ ssTracker' = [ssTracker EXCEPT ![s] = r.tracker]
          ELSE Commit(erased) /\ UNCHANGED ssTracker
    /\ last' = [op |-> "RecruitReply", server |-> s]
    /\ UNCHANGED otherVars
    /\ UNCHANGED <<phase, removeFailedServer, observed, removedBy, budget>>

\* storageServerTracker, when(interfaceChanged), and round its loop
InterfaceChanged(s, newZone) ==
    /\ AtYield /\ budget > 0
    /\ ssTracker[s].pc = "tracking"
    /\ newZone # self.server_info[s].zone
    /\ LET st == ssTracker[s].status
           r == storageServerTrackerLoop(
                    interfaceChanged(self, s, newZone), s,
                    ServerStatus(st.isFailed, st.isUndesired, newZone),
                    ssTracker[s].lastIsUnhealthy)
       IN Commit(r.tc) /\ ssTracker' = [ssTracker EXCEPT ![s] = r.tracker]
    /\ budget' = budget - 1
    /\ last' = [op |-> "InterfaceChanged", server |-> s]
    /\ UNCHANGED otherVars
    /\ UNCHANGED <<phase, removeFailedServer, observed, removedBy>>

\* storageServerFailureTracker, when(healthChanged), and round its loop
HealthChanged(s) ==
    /\ AtYield /\ budget > 0
    /\ ssTracker[s].pc = "tracking"
    /\ LET st == [ssTracker[s].status EXCEPT !.isFailed = ~@]
           rebuild == ~st.isFailed
                      /\ (Len(self.server_info[s].teams) < targetTeamNumPerServer
                          \/ self.lastBuildTeamsFailed)
       IN /\ Commit(publishStatus([self EXCEPT !.doBuildTeams = @ \/ rebuild], s, st))
          /\ ssTracker' = [ssTracker EXCEPT ![s].status = st]
    /\ budget' = budget - 1
    /\ last' = [op |-> "HealthChanged", server |-> s]
    /\ UNCHANGED otherVars
    /\ UNCHANGED <<phase, removeFailedServer, observed, removedBy>>

\* trackExcludedServers sets the exclusion of the server's address; its tracker
\* wakes on otherChanges and goes round its loop
ExclusionChanged(s, worstStatus) ==
    /\ AtYield /\ budget > 0
    /\ ssTracker[s].pc = "tracking"
    /\ worstStatus # self.excludedServers[s]
    /\ LET r == storageServerTrackerLoop(
                    [self EXCEPT !.excludedServers[s] = worstStatus], s,
                    ssTracker[s].status, ssTracker[s].lastIsUnhealthy)
       IN Commit(r.tc) /\ ssTracker' = [ssTracker EXCEPT ![s] = r.tracker]
    /\ budget' = budget - 1
    /\ last' = [op |-> "ExclusionChanged", server |-> s]
    /\ UNCHANGED otherVars
    /\ UNCHANGED <<phase, removeFailedServer, observed, removedBy>>

\* storageServerFailureTracker's waitForAllDataRemoved returns: the tracker
\* starts removeStorageServer
DataRemoved(s, ver, canRemove, numberOfShards) ==
    /\ AtYield
    /\ ssTracker[s].pc = "tracking"
    /\ isUnhealthy(ssTracker[s].status)
    /\ ver >= self.server_info[s].addedVersion
    /\ waitForAllDataRemoved(self.server_info[s].addedVersion, ver, canRemove, numberOfShards)
    /\ ssTracker' = [ssTracker EXCEPT ![s].pc = "removing"]
    /\ observed' = [observed EXCEPT ![s] =
           [version |-> ver > self.server_info[s].addedVersion + MAX_READ_TRANSACTION_LIFE_VERSIONS,
            noShards |-> numberOfShards = 0]]
    /\ last' = [op |-> "DataRemoved", server |-> s]
    /\ UNCHANGED otherVars
    /\ UNCHANGED <<self, phase, removeFailedServer, removedBy, budget>>

\* removeStorageServer commits, the tracker sends the id on removedServers and
\* dataDistributionTeamCollection calls removeServer
ServerRemoved(s) ==
    /\ AtYield
    /\ ssTracker[s].pc = "removing"
    /\ Commit(removeServer(self, s))
    /\ ssTracker' = [ssTracker EXCEPT ![s] = [NoTracker EXCEPT !.pc = "gone"]]
    /\ removedBy' = [removedBy EXCEPT ![s] = "tracker"]
    /\ last' = [op |-> "ServerRemoved", server |-> s]
    /\ UNCHANGED otherVars
    /\ UNCHANGED <<phase, removeFailedServer, observed, budget>>

\* storageServerTracker after delay(0.0) under a FAILED exclusion: the id is sent
\* on removeFailedServer, movekeys_conflict is thrown and the collection is destroyed
FailedServerThrows(s) ==
    /\ AtYield
    /\ ssTracker[s].pc = "failedDelay"
    /\ removeFailedServer' = IF removeFailedServer = 0 THEN s ELSE removeFailedServer
    /\ Commit(destroyCollection(self))
    /\ phase' = "destroyed"
    /\ last' = [op |-> "FailedServerThrows", server |-> s]
    /\ UNCHANGED otherVars
    /\ UNCHANGED <<ssTracker, observed, removedBy, budget>>

\* dataDistribution, after the error: removeKeysFromFailedServer and
\* removeStorageServer for the failed server
RemoveFailedServer ==
    /\ phase = "destroyed"
    /\ removeFailedServer # 0
    /\ removedBy[removeFailedServer] = "none"
    /\ removedBy' = [removedBy EXCEPT ![removeFailedServer] = "failedServer"]
    /\ last' = [op |-> "RemoveFailedServer", server |-> removeFailedServer]
    /\ UNCHANGED otherVars
    /\ UNCHANGED <<self, phase, ssTracker, removeFailedServer, observed, budget>>

\* dataDistribution leaves its catch block and goes round its outer loop, with a new
\* removeFailedServer promise; the round that follows is not followed here
RestartedAtOnce ==
    /\ phase = "destroyed"
    /\ phase' = "restarted"
    /\ removeFailedServer' = 0
    /\ last' = [op |-> "Restarted", server |-> removeFailedServer]
    /\ UNCHANGED otherVars
    /\ UNCHANGED <<self, ssTracker, observed, removedBy, budget>>

Restarted ==
    /\ phase = "destroyed"
    /\ removeFailedServer # 0
    /\ removedBy[removeFailedServer] = "failedServer"
    /\ phase' = "restarted"
    /\ removeFailedServer' = 0
    /\ last' = [op |-> "Restarted", server |-> removeFailedServer]
    /\ UNCHANGED otherVars
    /\ UNCHANGED <<self, ssTracker, observed, removedBy, budget>>

\* teamTracker: one of its futures fired and, after its yield, it goes round its loop
TeamTrackerRun(t) ==
    /\ AtYield
    /\ trackerWoken(self, t)
    /\ Commit(teamTrackerLoop(self, t, FALSE))
    /\ last' = [op |-> "TeamTrackerRun", server |-> 0]
    /\ UNCHANGED otherVars
    /\ UNCHANGED <<phase, ssTracker, removeFailedServer, observed, removedBy, budget>>

\* removeBadTeams: waitUntilHealthy returns; the bad teams go unless
\* addSubsetComplete is still to be sent
BadTeamsRemoved ==
    /\ AtYield
    /\ self.badTeamRemover = "waitHealthy"
    /\ ~self.zeroHealthyTeams
    /\ Commit(IF self.addSubsetComplete THEN removeBadTeams(self)
              ELSE [self EXCEPT !.badTeamRemover = "waitSubset"])
    /\ last' = [op |-> "BadTeamsRemoved", server |-> 0]
    /\ UNCHANGED otherVars
    /\ UNCHANGED <<phase, ssTracker, removeFailedServer, observed, removedBy, budget>>

\* checkBuildTeams runs buildTeams, which does not wait before it is through
BuildTeams ==
    /\ AtYield
    /\ self.doBuildTeams
    /\ \E tc \in buildTeams(self) : Commit(tc)
    /\ last' = [op |-> "BuildTeams", server |-> 0]
    /\ UNCHANGED otherVars
    /\ UNCHANGED <<phase, ssTracker, removeFailedServer, observed, removedBy, budget>>

\* the read versions at which a server may have been added
AddedVersions == 0 .. MaxVersion - 1

Next ==
    \/ \E c \in InitialDataDistributions : DDInit(c)
    \/ \E s \in Servers, z \in Zones, ver \in AddedVersions : AddServerFromList(s, z, ver)
    \/ \E s \in Servers : RecruitStart(s)
    \/ \E s \in Servers, present \in BOOLEAN, z \in Zones, ver \in AddedVersions :
           RecruitReply(s, present, z, ver)
    \/ \E s \in Servers, z \in Zones : InterfaceChanged(s, z)
    \/ \E s \in Servers : HealthChanged(s)
    \/ \E s \in Servers, w \in {"NONE", "EXCLUDED", "FAILED"} : ExclusionChanged(s, w)
    \/ \E s \in Servers, ver \in 0 .. MaxVersion, canRemove \in BOOLEAN, n \in 0 .. 1 :
           DataRemoved(s, ver, canRemove, n)
    \/ \E s \in Servers : ServerRemoved(s)
    \/ \E s \in Servers : FailedServerThrows(s)
    \/ RemoveFailedServer
    \/ Restarted
    \/ \E t \in TeamIds : TeamTrackerRun(t)
    \/ BadTeamsRemoved
    \/ BuildTeams

Spec == Init /\ [][Next]_vars

\* ---- team trackers with their whole accounting ---------------------------------
\* The relocations a tracker sends are left out, and with them its check of the
\* sibling collections.

\* the trackers that wait for a change of the status of a server of s, or of
\* zeroHealthyTeams if s is empty, wake up
wakeTrackers(k, s) ==
    [k EXCEPT !.team = [t \in DOMAIN @ |->
        [@[t] EXCEPT !.woken = @ \/ (k.team[t].tracker = "running"
                                      /\ (s = {} \/ s \cap Range(k.team[t].servers) # {}))]]]

\* zeroHealthyTeams->set
setZeroHealthyTeams(k, value) ==
    IF k.zeroHealthyTeams = value THEN k
    ELSE [wakeTrackers(k, {}) EXCEPT !.zeroHealthyTeams = value]

\* teamTracker, what one round reads of the status of the team's servers
trackedCount(k, t, field) ==
    Cardinality({i \in 1 .. Len(k.team[t].servers) : k.server_status[k.team[t].servers[i]][field]})

trackedServersLeft(k, t) == Len(k.team[t].servers) - trackedCount(k, t, "isFailed")

trackedHealthy(k, t) ==
    /\ ~k.team[t].badTeam
    /\ trackedCount(k, t, "isUndesired") = 0
    /\ trackedServersLeft(k, t) = storageTeamSize

\* TCTeamInfo::isOptimal and the team's health
trackedOptimal(k, t) ==
    /\ \A i \in 1 .. Len(k.team[t].servers) : k.storageClass[k.team[t].servers[i]]
    /\ trackedHealthy(k, t)

\* teamContainsFailedServer
teamContainsFailedServer(k, t) == Range(k.team[t].servers) \cap k.failedExclusion # {}

\* teamTracker, the priority it gives a team whose servers have these statuses
statusCount(statuses, field) == Cardinality({i \in 1 .. Len(statuses) : statuses[i][field]})

wiggleFirst(statuses, teamSize, badTeam, redundantTeam) ==
    IF Len(statuses) = 0 THEN PRIORITY.POPULATE_REGION
    ELSE IF statusCount(statuses, "isWiggling") > 0 THEN PRIORITY.PERPETUAL_STORAGE_WIGGLE
    ELSE PRIORITY.TEAM_HEALTHY

teamPriority(statuses, teamSize, badTeam, redundantTeam) ==
    LET left == Len(statuses) - statusCount(statuses, "isFailed")
        serverUndesired == statusCount(statuses, "isUndesired")
        serverWrongConf == statusCount(statuses, "isWrongConfiguration")
        serverWiggling == statusCount(statuses, "isWiggling")
    IN  IF Len(statuses) = 0 THEN PRIORITY.POPULATE_REGION
        ELSE IF left < teamSize
             THEN CASE left = 0 -> PRIORITY.TEAM_0_LEFT
                    [] left = 1 -> PRIORITY.TEAM_1_LEFT
                    [] left = 2 -> PRIORITY.TEAM_2_LEFT
                    [] OTHER -> PRIORITY.TEAM_UNHEALTHY
        ELSE IF /\ ~badTeam
                /\ serverWiggling > 0
                /\ serverWiggling = serverWrongConf
                /\ serverWiggling = serverUndesired
             THEN PRIORITY.PERPETUAL_STORAGE_WIGGLE
        ELSE IF badTeam \/ serverWrongConf > 0
             THEN IF redundantTeam THEN PRIORITY.TEAM_REDUNDANT
                  ELSE PRIORITY.TEAM_UNHEALTHY
        ELSE IF serverUndesired > 0
             THEN PRIORITY.TEAM_CONTAINS_UNDESIRED_SERVER
        ELSE PRIORITY.TEAM_HEALTHY

\* teamTracker, the priority a round gives the team
trackedPriority(k, t) ==
    teamPriority([i \in 1 .. Len(k.team[t].servers) |-> k.server_status[k.team[t].servers[i]]],
                 storageTeamSize, k.team[t].badTeam, k.team[t].redundantTeam)

\* teamTracker up to its loop
teamTrackerStarted(k, t, badTeam, redundantTeam) ==
    [k EXCEPT !.team[t] = [TrackedTeam(@.servers) EXCEPT
                               !.tracker = "running",
                               !.badTeam = badTeam,
                               !.redundantTeam = redundantTeam,
                               !.lastServersLeft = Len(k.team[t].servers),
                               !.logTeamEvents = ~badTeam \/ Len(k.team[t].servers) <= storageTeamSize,
                               !.lastZeroHealthy = k.zeroHealthyTeams],
              !.priority_teams[PRIORITY.TEAM_HEALTHY] = @ + 1]

\* teamTracker, its catch block, and the end of the actor with the futures it holds
keepPriorityBucket(k, t) == k

leavePriorityBucket(k, t) == [k EXCEPT !.priority_teams[k.team[t].priority] = @ - 1]

teamTrackerCancelled(k, t) ==
    LET uncounted(j) ==
            IF j.team[t].healthy
            THEN IF j.healthyTeamCount - 1 = 0
                 THEN setZeroHealthyTeams([j EXCEPT !.healthyTeamCount = @ - 1], TRUE)
                 ELSE [j EXCEPT !.healthyTeamCount = @ - 1]
            ELSE j
        unoptimal(j) ==
            IF j.team[t].lastOptimal
            THEN [j EXCEPT !.optimalTeamCount = @ - 1,
                           !.zeroOptimalTeams = j.optimalTeamCount - 1 = 0]
            ELSE j
        ended(j) ==
            [j EXCEPT !.team[t].tracker = "cancelled",
                      !.team[t].woken = FALSE,
                      !.team[t].zeroServerLeftLogger =
                          IF @ = "running" THEN "cancelled" ELSE @]
    IN ended(unoptimal(uncounted(leavePriorityBucket(k, t))))

\* the teams of the primary collection are the tracked teams, and those that addTeam
\* has pushed on the lists of their servers are listed; the remote collection has one
\* team, on its servers 1 and 2
RemoteTeam == <<1, 2>>

TeamRef(primary, servers) == [primary |-> primary, servers |-> servers]

\* ShardsAffectedByTeamFailure::getShardsFor, in the order of the keys
getShardsFor(k, t) ==
    AsVector({sh \in 1 .. NumShards :
                 Contains(k.shardTeams[sh], TeamRef(TRUE, k.team[t].servers))})

\* teamTracker, the priority of a team of a shard as the loop over getTeamsFor sees it:
\* 0 if the first server of the team is in no server_info
foundPriority(k, t, ref) ==
    LET listedTeams == {u \in DOMAIN k.team : k.team[u].listed /\ k.team[u].servers = ref.servers}
        notFound == IF k.team[t].redundantTeam THEN PRIORITY.TEAM_REDUNDANT
                    ELSE PRIORITY.TEAM_UNHEALTHY
    IN  IF ref.primary
        THEN IF ref.servers[1] \notin Servers THEN 0
             ELSE IF listedTeams # {} THEN k.team[CHOOSE u \in listedTeams : TRUE].priority
             ELSE notFound
        ELSE IF ref.servers[1] \notin Range(RemoteTeam) THEN 0
             ELSE IF ref.servers = RemoteTeam THEN k.remote.priority
             ELSE notFound

\* teamTracker, the loop over the teams of a shard
RECURSIVE otherTeamsPriority(_, _, _, _, _)
otherTeamsPriority(k, t, teams, j, maxPriority) ==
    IF j > Len(teams) THEN [thrown |-> FALSE, priority |-> maxPriority]
    ELSE IF Len(teams[j].servers) = 0
    THEN [thrown |-> FALSE, priority |-> Max(maxPriority, PRIORITY.POPULATE_REGION)]
    ELSE IF ~teams[j].primary /\ ~k.remote.alive
    THEN [thrown |-> TRUE, priority |-> maxPriority]
    ELSE otherTeamsPriority(k, t, teams, j + 1, Max(maxPriority, foundPriority(k, t, teams[j])))

\* teamTracker, the priority of the RelocateShard of a shard
ownPriorityOnly(k, t, sh, containsFailed) ==
    [thrown |-> FALSE,
     priority |-> IF containsFailed THEN PRIORITY_TEAM_FAILED ELSE k.team[t].priority]

maxPriority(k, t, sh, containsFailed) ==
    IF containsFailed \/ k.team[t].priority >= PRIORITY_TEAM_FAILED
    THEN ownPriorityOnly(k, t, sh, containsFailed)
    ELSE otherTeamsPriority(k, t, k.shardTeams[sh], 1, k.team[t].priority)

\* teamTracker throwing dd_cancelled: its catch block runs and the actor ends
teamTrackerThrown(k, t) == [teamTrackerCancelled(k, t) EXCEPT !.team[t].tracker = "thrown"]

\* teamTracker, the loop over the shards of the team
RECURSIVE sendRelocateShards(_, _, _, _, _)
sendRelocateShards(k, t, shards, i, containsFailed) ==
    IF i > Len(shards) THEN k
    ELSE IF maxPriority(k, t, shards[i], containsFailed).thrown THEN teamTrackerThrown(k, t)
    ELSE sendRelocateShards(
             [k EXCEPT !.team[t].round.output =
                          Append(@, [keys |-> shards[i],
                                     priority |-> maxPriority(k, t, shards[i], containsFailed).priority])],
             t, shards, i + 1, containsFailed)

\* teamTracker, the end of a round that found a change
relocateAlways(k, t, containsFailed) ==
    sendRelocateShards([k EXCEPT !.team[t].round =
                                    [changed |-> TRUE,
                                     ready |-> k.initialFailureReactionDelay,
                                     zeroHealthyTeams |-> k.zeroHealthyTeams,
                                     containsFailed |-> containsFailed,
                                     shards |-> getShardsFor(k, t),
                                     output |-> <<>>]],
                       t, getShardsFor(k, t), 1, containsFailed)

relocate(k, t, containsFailed) ==
    LET noted == [k EXCEPT !.team[t].round =
                              [changed |-> TRUE,
                               ready |-> k.initialFailureReactionDelay,
                               zeroHealthyTeams |-> k.zeroHealthyTeams,
                               containsFailed |-> containsFailed,
                               shards |-> getShardsFor(k, t),
                               output |-> <<>>]]
    IN  IF (k.initialFailureReactionDelay /\ ~k.zeroHealthyTeams) \/ containsFailed
        THEN sendRelocateShards(noted, t, getShardsFor(k, t), 1, containsFailed)
        ELSE noted

\* teamTracker, one round of its loop up to the wait; firstCheck is true in the round
\* the actor starts with
teamTrackerRound(k0, t, firstCheck) ==
    LET healthy == trackedHealthy(k0, t)
        optimal == trackedOptimal(k0, t)
        recheck == /\ ~healthy
                   /\ \/ k0.team[t].lastReady # k0.initialFailureReactionDelay
                      \/ k0.team[t].lastZeroHealthy /\ ~k0.zeroHealthyTeams
                      \/ teamContainsFailedServer(k0, t)
        changed == \/ trackedServersLeft(k0, t) # k0.team[t].lastServersLeft
                   \/ (trackedCount(k0, t, "isUndesired") > 0) # k0.team[t].lastAnyUndesired
                   \/ (trackedCount(k0, t, "isWrongConfiguration") > 0)
                          # k0.team[t].lastWrongConfiguration
                   \/ (trackedCount(k0, t, "isWiggling") > 0)
                          # k0.team[t].lastAnyWigglingServer
                   \/ recheck
        read(k) ==
            [k EXCEPT !.team[t].woken = FALSE,
                      !.team[t].round = NoRound,
                      !.team[t].logTeamEvents = @ \/ trackedServersLeft(k0, t) = 0,
                      !.team[t].healthy = healthy,
                      !.team[t].lastReady = k0.initialFailureReactionDelay,
                      !.team[t].lastZeroHealthy = k0.zeroHealthyTeams]
        countedHealthy(k) ==
            IF firstCheck /\ healthy
            THEN setZeroHealthyTeams([k EXCEPT !.healthyTeamCount = @ + 1], FALSE)
            ELSE k
        countedOptimal(k) ==
            IF firstCheck /\ optimal
            THEN [k EXCEPT !.optimalTeamCount = @ + 1, !.zeroOptimalTeams = FALSE]
            ELSE k
        first(k) ==
            IF firstCheck
            THEN [k EXCEPT !.team[t].lastHealthy = healthy, !.team[t].lastOptimal = optimal]
            ELSE k
        optimalChanged(k) ==
            IF optimal # k.team[t].lastOptimal
            THEN [k EXCEPT !.team[t].lastOptimal = optimal,
                           !.optimalTeamCount = IF optimal THEN @ + 1 ELSE @ - 1,
                           !.zeroOptimalTeams =
                               (IF optimal THEN k.optimalTeamCount + 1
                                ELSE k.optimalTeamCount - 1) = 0]
            ELSE k
        healthyCounted(k) == [k EXCEPT !.healthyTeamCount = IF healthy THEN @ + 1 ELSE @ - 1]
        healthyChanged(k) ==
            IF healthy # k.team[t].lastHealthy
            THEN setZeroHealthyTeams([healthyCounted(k) EXCEPT !.team[t].lastHealthy = healthy],
                                     healthyCounted(k).healthyTeamCount = 0)
            ELSE k
        remembered(k) ==
            [k EXCEPT !.team[t].wrongConfiguration = trackedCount(k0, t, "isWrongConfiguration") > 0,
                      !.team[t].lastServersLeft = trackedServersLeft(k0, t),
                      !.team[t].lastAnyUndesired = trackedCount(k0, t, "isUndesired") > 0,
                      !.team[t].lastWrongConfiguration =
                          trackedCount(k0, t, "isWrongConfiguration") > 0,
                      !.team[t].lastAnyWigglingServer = trackedCount(k0, t, "isWiggling") > 0]
        logger(k, lastPriority, priority) ==
            IF k.team[t].logTeamEvents /\ priority = PRIORITY.TEAM_0_LEFT THEN "running"
            ELSE IF lastPriority = PRIORITY.TEAM_0_LEFT /\ priority < PRIORITY.TEAM_0_LEFT
                 THEN "ready"
                 ELSE k.team[t].zeroServerLeftLogger
        prioritized(k, lastPriority, priority) ==
            IF lastPriority = priority THEN k
            ELSE [k EXCEPT !.team[t].priority = priority,
                           !.priority_teams =
                               [p \in Priorities |->
                                   IF p = lastPriority THEN @[p] - 1
                                   ELSE IF p = priority THEN @[p] + 1 ELSE @[p]],
                           !.team[t].zeroServerLeftLogger = logger(k, lastPriority, priority)]
        lastly(k) == [k EXCEPT !.team[t].lastZeroHealthy = k.zeroHealthyTeams]
    IN IF changed
       THEN relocate(lastly(prioritized(remembered(healthyChanged(optimalChanged(
                         first(countedOptimal(countedHealthy(read(k0))))))),
                         k0.team[t].priority, trackedPriority(k0, t))),
                     t, teamContainsFailedServer(k0, t))
       ELSE first(countedOptimal(countedHealthy(read(k0))))

\* addTeam and addBadTeam: the tracker of a team starts and runs to its first wait
TrackerStarted(t, badTeam, redundantTeam) ==
    /\ teamTrackers.team[t].tracker = "none"
    /\ badTeam \/ ~redundantTeam
    /\ teamTrackers' =
           [teamTrackerRound(teamTrackerStarted(teamTrackers, t, badTeam, redundantTeam), t, TRUE)
               EXCEPT !.team[t].listed = ~badTeam]
    /\ UNCHANGED exceptTracked

\* teamTracker: one of the futures it waits for is ready
TrackerWoken(t) ==
    /\ teamTrackers.team[t].tracker = "running"
    /\ teamTrackers.team[t].woken
    /\ teamTrackers' = teamTrackerRound(teamTrackers, t, FALSE)
    /\ UNCHANGED exceptTracked

\* removeTeam, removeBadTeams and the destructor cancel the tracker
TrackerCancelled(t) ==
    /\ teamTrackers.team[t].tracker = "running"
    /\ teamTrackers' = [teamTrackerCancelled(teamTrackers, t) EXCEPT !.team[t].listed = FALSE]
    /\ UNCHANGED exceptTracked

\* zeroServerLeftLogger_impl after its delay and the replies of getShardMetrics: it
\* traces DDZeroServerLeftInTeam and returns
loggerStays(k, t) == k

loggerReturned(k, t) ==
    [k EXCEPT !.team[t].zeroServerLeftLogger = "ready",
              !.team[t].zeroServerLeftInTeam = @ + 1]

LoggerReturned(t) ==
    /\ teamTrackers.team[t].zeroServerLeftLogger = "running"
    /\ teamTrackers' = loggerReturned(teamTrackers, t)
    /\ UNCHANGED exceptTracked

\* storageServerFailureTracker and storageServerTracker publish a status
TrackedStatusChanged(s, status) ==
    /\ teamTrackers.budget > 0
    /\ teamTrackers.server_status[s] # status
    /\ teamTrackers' = [wakeTrackers(teamTrackers, {s}) EXCEPT !.server_status[s] = status,
                                                     !.budget = @ - 1]
    /\ UNCHANGED exceptTracked

\* the process class of a server, or the failed exclusion of its address, changes
TrackedServerChanged(s, storageClass, failed) ==
    /\ teamTrackers.budget > 0
    /\ storageClass # teamTrackers.storageClass[s] \/ failed # (s \in teamTrackers.failedExclusion)
    /\ teamTrackers' = [teamTrackers EXCEPT !.storageClass[s] = storageClass,
                                  !.failedExclusion = IF failed THEN @ \cup {s} ELSE @ \ {s},
                                  !.budget = @ - 1]
    /\ UNCHANGED exceptTracked

\* initialFailureReactionDelay is over
ReactionDelayOver ==
    /\ ~teamTrackers.initialFailureReactionDelay
    /\ teamTrackers' = [teamTrackers EXCEPT
           !.initialFailureReactionDelay = TRUE,
           !.team = [t \in DOMAIN @ |->
               [@[t] EXCEPT !.woken = @ \/ (teamTrackers.team[t].tracker = "running"
                                             /\ ~teamTrackers.team[t].lastReady)]]]
    /\ UNCHANGED exceptTracked

TrackedStatuses ==
    {TrackedStatus(FALSE, FALSE, FALSE, FALSE), TrackedStatus(TRUE, FALSE, FALSE, FALSE),
     TrackedStatus(FALSE, TRUE, FALSE, FALSE), TrackedStatus(FALSE, TRUE, TRUE, FALSE),
     TrackedStatus(FALSE, TRUE, TRUE, TRUE)}

TrackerNext ==
    \/ \E t \in TrackedTeamIds, badTeam \in BOOLEAN, redundantTeam \in BOOLEAN :
           TrackerStarted(t, badTeam, redundantTeam)
    \/ \E t \in TrackedTeamIds : TrackerWoken(t)
    \/ \E t \in TrackedTeamIds : TrackerCancelled(t)
    \/ \E t \in TrackedTeamIds : LoggerReturned(t)
    \/ \E s \in Servers, status \in TrackedStatuses : TrackedStatusChanged(s, status)
    \/ \E s \in Servers, storageClass \in BOOLEAN, failed \in BOOLEAN :
           TrackedServerChanged(s, storageClass, failed)
    \/ ReactionDelayOver

TrackerSpec == Init /\ [][TrackerNext]_vars

\* ---- team trackers while servers fail and come back ------------------------------
\* storageServerFailureTracker publishes that a server failed or is back
ServerFailureChanged(s) ==
    /\ teamTrackers.failures > 0
    /\ teamTrackers' = [wakeTrackers(teamTrackers, {s}) EXCEPT
                           !.server_status[s].isFailed = ~@,
                           !.failures = @ - 1]
    /\ UNCHANGED exceptTracked

TeamFailureNext ==
    \/ \E t \in TrackedTeamIds, badTeam \in BOOLEAN, redundantTeam \in BOOLEAN :
           TrackerStarted(t, badTeam, redundantTeam)
    \/ \E t \in TrackedTeamIds : TrackerWoken(t)
    \/ \E t \in TrackedTeamIds : TrackerCancelled(t)
    \/ \E t \in TrackedTeamIds : LoggerReturned(t)
    \/ \E s \in Servers : ServerFailureChanged(s)
    \/ ReactionDelayOver

TeamFailureSpec == Init /\ [][TeamFailureNext]_vars

\* ---- the priority of a team -----------------------------------------------------
\* the statuses that storageServerTracker and storageServerFailureTracker publish: a
\* server of the wrong configuration is undesired, and a wiggling one is both
PublishedStatuses ==
    {st \in [isFailed : BOOLEAN, isUndesired : BOOLEAN, isWrongConfiguration : BOOLEAN,
             isWiggling : BOOLEAN] :
        /\ st.isWiggling => st.isWrongConfiguration
        /\ st.isWrongConfiguration => st.isUndesired}

RECURSIVE StatusVectors(_)
StatusVectors(n) ==
    IF n = 0 THEN {<<>>}
    ELSE StatusVectors(n - 1)
         \cup {Append(v, st) : v \in {w \in StatusVectors(n - 1) : Len(w) = n - 1},
                               st \in PublishedStatuses}

\* addTeam and addBadTeam start the tracker of a team: a team that is redundant or not
\* of the configured size is a bad team; the tracker then gives the team a priority
PriorityComputed(statuses, teamSize, badTeam, redundantTeam) ==
    /\ priorityOf.priority = 0
    /\ redundantTeam \/ Len(statuses) # teamSize => badTeam
    /\ priorityOf' = [statuses |-> statuses, storageTeamSize |-> teamSize,
                      badTeam |-> badTeam, redundantTeam |-> redundantTeam,
                      priority |-> teamPriority(statuses, teamSize, badTeam, redundantTeam)]
    /\ UNCHANGED exceptPriority

PriorityNext ==
    /\ priorityOf.priority = 0
    /\ \E statuses \in StatusVectors(MaxTeamSize), teamSize \in 1 .. MaxTeamSize,
          badTeam \in BOOLEAN, redundantTeam \in BOOLEAN :
           PriorityComputed(statuses, teamSize, badTeam, redundantTeam)

PrioritySpec == Init /\ [][PriorityNext]_vars

\* ---- team trackers and the shards of their teams ---------------------------------
\* the teams a shard can be on: the first tracked team alone; two teams of the primary
\* and the team of the remote; an empty team before another one; a team with a
\* removed server and a team that the remote collection does not have
ShardPlacements ==
    {<<TeamRef(TRUE, <<1, 2>>)>>,
     <<TeamRef(TRUE, <<1, 2>>), TeamRef(TRUE, <<2, 3>>), TeamRef(FALSE, RemoteTeam)>>,
     <<TeamRef(TRUE, <<2, 3>>), TeamRef(TRUE, <<>>), TeamRef(TRUE, <<1, 2>>)>>,
     <<TeamRef(TRUE, <<1, 2>>), TeamRef(TRUE, <<NumServers + 1, 1>>),
       TeamRef(FALSE, <<2, 3>>)>>}

\* the ranges of keys that are moved at once, as sets of shards: the first shard, or
\* all of them
KeyRanges == {{1}, 1 .. NumShards}

\* the first team is added as a good, a bad or a redundant team, the others as good
\* teams
AddedTeams ==
    {<<t, badTeam, redundantTeam>> \in TrackedTeamIds \X BOOLEAN \X BOOLEAN :
        /\ redundantTeam => badTeam
        /\ badTeam => t = 1}

\* ShardsAffectedByTeamFailure::moveShard
ShardMoved(keys, teams) ==
    /\ teamTrackers.moves > 0
    /\ teamTrackers' = [teamTrackers EXCEPT
                           !.shardTeams = [sh \in DOMAIN @ |-> IF sh \in keys THEN teams ELSE @[sh]],
                           !.moves = @ - 1]
    /\ UNCHANGED exceptTracked

\* the tracker of the team of the remote collection finds its team unhealthy
RemoteTeamUnhealthy ==
    /\ teamTrackers.remote.alive
    /\ teamTrackers.remote.priority # PRIORITY.TEAM_UNHEALTHY
    /\ teamTrackers' = [teamTrackers EXCEPT !.remote.priority = PRIORITY.TEAM_UNHEALTHY]
    /\ UNCHANGED exceptTracked

\* the remote collection is destructed and resets the pointer to it
RemoteDestructed ==
    /\ teamTrackers.remote.alive
    /\ teamTrackers' = [teamTrackers EXCEPT !.remote.alive = FALSE]
    /\ UNCHANGED exceptTracked

\* trackExcludedServers reads that the address of a server is excluded as failed
ExclusionFailed(s) ==
    /\ teamTrackers.failures > 0
    /\ s \notin teamTrackers.failedExclusion
    /\ teamTrackers' = [teamTrackers EXCEPT !.failedExclusion = @ \cup {s}, !.failures = @ - 1]
    /\ UNCHANGED exceptTracked

RelocationNext ==
    \/ \E added \in AddedTeams : TrackerStarted(added[1], added[2], added[3])
    \/ \E t \in TrackedTeamIds : TrackerWoken(t)
    \/ \E s \in {1, 2} : ServerFailureChanged(s)
    \/ \E s \in {1} : ExclusionFailed(s)
    \/ \E keys \in KeyRanges, teams \in ShardPlacements : ShardMoved(keys, teams)
    \/ RemoteTeamUnhealthy
    \/ RemoteDestructed
    \/ ReactionDelayOver

RelocationSpec == Init /\ [][RelocationNext]_vars

\* the delay of a logger ends and getShardMetrics answers
TeamFailureFairSpec ==
    /\ TeamFailureSpec
    /\ \A t \in TrackedTeamIds : WF_vars(LoggerReturned(t))

\* ---- the collections of the two regions -------------------------------------------
\* Future::cancel on each actor of a list that was started, in the order of the list;
\* what is cancelled is appended to the record of the destructor
RECURSIVE cancelEach(_, _, _)
cancelEach(c, list, i) ==
    IF i > MaxTornDown THEN c
    ELSE cancelEach(
             IF c[list][i] = "none" THEN c
             ELSE [c EXCEPT ![list][i] = "cancelled",
                            !.destructed = Append(@, [actor |-> list, id |-> i])],
             list, i + 1)

\* ~DDTeamCollection, the cancellations in its body and the destruction of the
\* members after it
serverTrackersFirst(c) ==
    [cancelEach(cancelEach(cancelEach(
         [c EXCEPT !.teamBuilder = "cancelled",
                   !.destructed = Append(@, [actor |-> "teamBuilder", id |-> 0])],
         "server_and_tss_info", 1), "teams", 1), "badTeams", 1)
     EXCEPT !.alive = FALSE, !.destructed = Append(@, [actor |-> "members", id |-> 0])]

destructed(c) ==
    [cancelEach(cancelEach(cancelEach(
         [c EXCEPT !.teamBuilder = "cancelled",
                   !.destructed = Append(@, [actor |-> "teamBuilder", id |-> 0])],
         "teams", 1), "badTeams", 1), "server_and_tss_info", 1)
     EXCEPT !.alive = FALSE, !.destructed = Append(@, [actor |-> "members", id |-> 0])]

\* ~DDTeamCollection, the pointers to this collection that the other collections it
\* knows hold
resetPointers(cs, this) ==
    [d \in Regions |->
        IF d # this /\ \E i \in Regions : cs[this].teamCollections[i] = d
        THEN [cs[d] EXCEPT !.teamCollections =
                 [j \in Regions |-> IF @[j] = this THEN "nullptr" ELSE @[j]]]
        ELSE cs[d]]

\* the reference to a collection is dropped
Destructed(this) ==
    /\ teamCollections[this].alive
    /\ teamCollections' =
           [resetPointers(teamCollections, this) EXCEPT ![this] = destructed(teamCollections[this])]
    /\ UNCHANGED exceptTeardown

\* addTeam, addServer: a tracker of the list starts
ActorStarted(c, list, i) ==
    /\ teamCollections[c].alive
    /\ teamCollections[c][list][i] = "none"
    /\ \A j \in 1 .. i - 1 : teamCollections[c][list][j] # "none"
    /\ teamCollections' = [teamCollections EXCEPT ![c][list][i] = "running"]
    /\ UNCHANGED exceptTeardown

\* checkBuildTeams starts the team builder, or the team builder returns
TeamBuilderRan(c) ==
    /\ teamCollections[c].alive
    /\ teamCollections' = [teamCollections EXCEPT ![c].teamBuilder =
                               IF @ = "ready" THEN "running" ELSE "ready"]
    /\ UNCHANGED exceptTeardown

\* teamTracker looks up the collection of region d for a team of a shard: it throws
\* dd_cancelled if the pointer is null, and reads freed memory if the collection
\* behind the pointer is gone
SiblingLookedUp(c, list, i, d) ==
    /\ teamCollections[c].alive
    /\ list \in {"teams", "badTeams"}
    /\ teamCollections[c][list][i] = "running"
    /\ teamCollections' =
           IF teamCollections[c].teamCollections[d] = "nullptr"
           THEN [teamCollections EXCEPT ![c][list][i] = "thrown"]
           ELSE IF ~teamCollections[teamCollections[c].teamCollections[d]].alive
                THEN [teamCollections EXCEPT ![c].useAfterFree = TRUE]
                ELSE teamCollections
    /\ teamCollections' # teamCollections
    /\ UNCHANGED exceptTeardown

TeardownNext ==
    \/ \E c \in Regions : Destructed(c)
    \/ \E c \in Regions, list \in {"teams", "badTeams", "server_and_tss_info"},
          i \in 1 .. MaxTornDown : ActorStarted(c, list, i)
    \/ \E c \in Regions : TeamBuilderRan(c)
    \/ \E c \in Regions, list \in {"teams", "badTeams"}, i \in 1 .. MaxTornDown, d \in Regions :
           SiblingLookedUp(c, list, i, d)

TeardownSpec == Init /\ [][TeardownNext]_vars

\* ---- perpetual storage wiggle ---------------------------------------------------
\* std::stoi on the values the configure command writes
stoi(value) == CASE value = "0" -> 0 [] value = "1" -> 1

\* AsyncVar<bool>::set on pauseWiggle: the wiggler waiting in its choose wakes up when
\* the value changes
SetPauseWiggle(w, value) ==
    [w EXCEPT !.pauseWiggle = value,
              !.wake = @ \/ (w.wiggler = "choose" /\ w.pauseWiggle # value)]

\* AsyncVar<bool>::set on the stop signal: both actors wait for its change
SetStopSignal(w, value) ==
    [w EXCEPT !.stopWiggleSignal = value,
              !.wake = @ \/ (w.wiggler = "choose" /\ w.stopWiggleSignal # value),
              !.iteratorWake = @ \/ (w.iterator = "choose" /\ w.stopWiggleSignal # value)]

\* DDTeamCollection::excludeStorageServersForWiggle: the servers whose removal the
\* wiggler waits for
allServersOfPid(w, pid) == IF pid \in w.pid2server_info THEN {pid} ELSE {}

wiggledServers(w, pid) ==
    IF pid \in w.pid2server_info /\ w.excludedServers[w.address[pid]] = "NONE"
    THEN {pid} ELSE {}

wiggledAddresses(w, pid) == {w.address[p] : p \in wiggledServers(w, pid)}

\* the teams of the collection that are left when removeServer has removed every
\* team of a server
teamsWithout(teams, removed) == {team \in teams : team \cap removed = {}}

excludeAndDropTeams(w, pid) ==
    [w EXCEPT !.wiggle_addresses = @ \cup wiggledAddresses(w, pid),
              !.excludedServers = [a \in Addresses |->
                  IF a \in wiggledAddresses(w, pid) THEN "WIGGLING" ELSE @[a]],
              !.moveFinishFuture = [set |-> TRUE, waiting |-> wiggledServers(w, pid)],
              !.teams = teamsWithout(@, wiggledServers(w, pid))]

excludeStorageServersForWiggle(w, pid) ==
    [w EXCEPT !.wiggle_addresses = @ \cup wiggledAddresses(w, pid),
              !.excludedServers = [a \in Addresses |->
                  IF a \in wiggledAddresses(w, pid) THEN "WIGGLING" ELSE @[a]],
              !.moveFinishFuture = [set |-> TRUE, waiting |-> wiggledServers(w, pid)]]

\* DDTeamCollection::includeStorageServersForWiggle
includeStorageServersForWiggle(w) ==
    [w EXCEPT !.excludedServers = [a \in Addresses |->
                  IF a \in w.wiggle_addresses /\ @[a] = "WIGGLING" THEN "NONE" ELSE @[a]],
              !.wiggle_addresses = {}]

\* watchPerpetualStoragePIDChange: the value read, an empty one if the key is not
\* set, and a watch that has not fired
readPid(d) ==
    [fired |-> FALSE,
     value |-> IF d.wigglingStorageServer = NoValue THEN 0 ELSE d.wigglingStorageServer]

\* perpetualStorageWiggler, the start of its loop up to the choose
wiggleWhilePaused(w) ==
    IF w.wigglingPid = NoValue THEN [w EXCEPT !.wiggler = "choose", !.wake = FALSE]
    ELSE [excludeStorageServersForWiggle(w, w.wigglingPid) EXCEPT !.wiggler = "choose",
                                                                !.wake = FALSE]

wigglerLoopTop(w) ==
    IF w.wigglingPid = NoValue THEN [w EXCEPT !.wiggler = "choose", !.wake = FALSE]
    ELSE IF w.pauseWiggle
         THEN [includeStorageServersForWiggle(w) EXCEPT !.moveFinishFuture = Never,
                                                        !.doBuildTeams = TRUE,
                                                        !.wiggler = "choose",
                                                        !.wake = FALSE]
         ELSE [excludeStorageServersForWiggle(w, w.wigglingPid) EXCEPT !.wiggler = "choose",
                                                                     !.wake = FALSE]

\* perpetualStorageWiggler after its loop; its health check is cancelled with it
keepPidOnExit(w) == w

resetOnExit(w) ==
    IF w.wigglingPid # NoValue
    THEN [includeStorageServersForWiggle(w) EXCEPT !.wigglingPid = NoValue]
    ELSE w

wigglerExit(w) ==
    [resetOnExit(w) EXCEPT !.wiggler = "off", !.wake = FALSE, !.watchFuture = FALSE,
                           !.moveFinishFuture = Never, !.extraTeamCount = 0,
                           !.pausePenalty = 1]

\* perpetualStorageWiggler after its choose
wigglerAfterChoose(w) == IF w.stopWiggleSignal THEN wigglerExit(w) ELSE wigglerLoopTop(w)

\* perpetualStorageWiggler adopts the process ID it read; it asserts before that no
\* process ID is being wiggled where the code does
adoptPid(w, asserts) ==
    [w EXCEPT !.assertFailed = @ \/ (asserts /\ w.wigglingPid # NoValue),
              !.wigglingPid = w.res.value]

\* updateNextWigglingStoragePID: the process ID after the stored one, the first one
\* after the last
nextWigglingStoragePID(w, d) ==
    IF w.pid2server_info = {} THEN 0
    ELSE IF d.wigglingStorageServer # NoValue
            /\ \E p \in w.pid2server_info : p > d.wigglingStorageServer
         THEN Lowest({p \in w.pid2server_info : p > d.wigglingStorageServer})
         ELSE Lowest(w.pid2server_info)

\* a write of wigglingStorageServerKey fires the watch set on another value
writePid(w, d, value) ==
    [w EXCEPT !.res.fired = @ \/ d.wigglingStorageServer # value]

\* perpetualStorageWiggleIterator after its choose
iteratorAfterChoose(w) ==
    [w EXCEPT !.iterator = IF w.stopWiggleSignal THEN "off" ELSE "choose",
              !.iteratorWake = FALSE]

WiggleRunning == ~wiggle.assertFailed /\ ~wiggle.presentAssertFailed

\* monitorPerpetualStorageWiggle reads its key and starts or stops the two actors;
\* the wiggler starts its health check and reads the process ID
\* teamsBefore and removedSince are history: the teams of the collection
\* when the wiggle was enabled last, and what has happened since
wiggleStarted(w) ==
    [SetStopSignal(w, FALSE) EXCEPT !.iterator = "choose", !.iteratorWake = FALSE,
                                    !.wiggler = "start", !.monitor = "watch",
                                    !.teamsBefore = w.teams,
                                    !.removedSince = "no"]

MonitorRead ==
    /\ WiggleRunning
    /\ wiggle.monitor = "read"
    /\ LET speed == IF db.perpetualStorageWiggle = "" THEN wiggle.speed
                    ELSE stoi(db.perpetualStorageWiggle)
           w == [wiggle EXCEPT !.speed = speed, !.keyWatch = FALSE]
       IN wiggle' = IF speed = 1 /\ w.stopWiggleSignal THEN wiggleStarted(w)
                    ELSE IF speed = 0 /\ ~w.stopWiggleSignal
                         THEN [SetStopSignal(w, TRUE) EXCEPT !.monitor = "stopping"]
                         ELSE [w EXCEPT !.monitor = "watch"]
    /\ UNCHANGED db
    /\ UNCHANGED exceptWiggle

\* SignalableActorCollection::signalAndReset is ready when every actor added to the
\* collection has returned
signalAndReset(w) == w.wiggler = "off" /\ w.iterator = "off"

\* monitorPerpetualStorageWiggle: both actors have returned
MonitorStopped ==
    /\ WiggleRunning
    /\ wiggle.monitor = "stopping"
    /\ signalAndReset(wiggle)
    /\ wiggle' = [SetPauseWiggle(wiggle, TRUE) EXCEPT !.monitor = "watch"]
    /\ UNCHANGED db
    /\ UNCHANGED exceptWiggle

\* monitorPerpetualStorageWiggle: the watch on its key fires
MonitorWatchFired ==
    /\ WiggleRunning
    /\ wiggle.monitor = "watch"
    /\ wiggle.keyWatch
    /\ wiggle' = [wiggle EXCEPT !.monitor = "read"]
    /\ UNCHANGED db
    /\ UNCHANGED exceptWiggle

\* configure perpetual_storage_wiggle=value
Configure(value) ==
    /\ WiggleRunning
    /\ wiggle.budget > 0
    /\ db' = [db EXCEPT !.perpetualStorageWiggle = value, !.writes = @ + 1]
    /\ wiggle' = [wiggle EXCEPT !.keyWatch = @ \/ (wiggle.monitor # "read"
                                                  /\ db.perpetualStorageWiggle # value),
                                !.budget = @ - 1]
    /\ UNCHANGED exceptWiggle

\* perpetualStorageWiggler: the first read of the process ID returns
WigglerStart ==
    /\ WiggleRunning
    /\ wiggle.wiggler = "start"
    /\ wiggle' = wigglerLoopTop(adoptPid([wiggle EXCEPT !.res = readPid(db)], TRUE))
    /\ UNCHANGED db
    /\ UNCHANGED exceptWiggle

\* perpetualStorageWiggler, when(wait(watchFuture)) up to the read of the process ID
WigglerWatchFired ==
    /\ WiggleRunning
    /\ wiggle.wiggler = "choose"
    /\ wiggle.watchFuture
    /\ wiggle.res.fired
    /\ wiggle' = [wiggle EXCEPT !.assertFailed = wiggle.wigglingPid # NoValue,
                                !.watchFuture = FALSE,
                                !.wiggler = "readPid"]
    /\ UNCHANGED db
    /\ UNCHANGED exceptWiggle

\* perpetualStorageWiggler: the read returns, the process ID is adopted
WigglerReadPid ==
    /\ WiggleRunning
    /\ wiggle.wiggler = "readPid"
    /\ wiggle' = [adoptPid([wiggle EXCEPT !.res = readPid(db)], FALSE) EXCEPT
                      !.wiggler = "delay"]
    /\ UNCHANGED db
    /\ UNCHANGED exceptWiggle

\* perpetualStorageWiggler: the random delay is over
WigglerDelayed ==
    /\ WiggleRunning
    /\ wiggle.wiggler = "delay"
    /\ wiggle' = wigglerAfterChoose(wiggle)
    /\ UNCHANGED db
    /\ UNCHANGED exceptWiggle

\* perpetualStorageWiggler, when(wait(moveFinishFuture))
moveFinished(w) ==
    [includeStorageServersForWiggle(w) EXCEPT
         !.presentAssertFailed = w.wigglingPid = NoValue,
         !.moveFinishFuture = Never,
         !.wigglingPid = NoValue,
         !.watchFuture = TRUE,
         !.finishStorageWiggleSignal = @ + 1,
         !.wiggles = @ + 1,
         !.extraTeamCount = Max(0, @ - 1)]

WigglerMoveFinished ==
    /\ WiggleRunning
    /\ wiggle.wiggler = "choose"
    /\ wiggle.moveFinishFuture.set
    /\ wiggle.moveFinishFuture.waiting = {}
    /\ wiggle.wiggles < MaxWiggles
    /\ wiggle' = wigglerAfterChoose(moveFinished(wiggle))
    /\ UNCHANGED db
    /\ UNCHANGED exceptWiggle

\* perpetualStorageWiggler: pauseWiggle or the stop signal changed
WigglerWoken ==
    /\ WiggleRunning
    /\ wiggle.wiggler = "choose"
    /\ wiggle.wake
    /\ wiggle' = wigglerAfterChoose(wiggle)
    /\ UNCHANGED db
    /\ UNCHANGED exceptWiggle

\* clusterHealthCheckForPerpetualWiggle, one round, with the number of unhealthy
\* relocations the queue answers and the collection's bestTeamKeepStuckCount
healthChecked(w, count, bestTeamKeepStuckCount) ==
    IF count >= DD_STORAGE_WIGGLE_PAUSE_THRESHOLD
       \/ w.healthyTeamCount <= w.extraTeamCount
       \/ bestTeamKeepStuckCount > DD_STORAGE_WIGGLE_STUCK_THRESHOLD
    THEN SetPauseWiggle(
             IF (w.healthyTeamCount <= w.extraTeamCount
                 \/ bestTeamKeepStuckCount > DD_STORAGE_WIGGLE_PAUSE_THRESHOLD)
                /\ ~w.pauseWiggle
             THEN [w EXCEPT !.extraTeamCount = Min(@ + w.pausePenalty, NumWiggleTeams),
                            !.pausePenalty = Min(@ * 2, NumWiggleTeams)]
             ELSE w,
             TRUE)
    ELSE SetPauseWiggle(w, FALSE)

ClusterHealthCheck(count, bestTeamKeepStuckCount) ==
    /\ WiggleRunning
    /\ wiggle.wiggler # "off"
    /\ wiggle' = healthChecked(wiggle, count, bestTeamKeepStuckCount)
    /\ UNCHANGED db
    /\ UNCHANGED exceptWiggle

\* perpetualStorageWiggleIterator takes a finish signal
IteratorSignalled ==
    /\ WiggleRunning
    /\ wiggle.iterator = "choose"
    /\ wiggle.finishStorageWiggleSignal > 0
    /\ wiggle' = [wiggle EXCEPT !.finishStorageWiggleSignal = @ - 1, !.iterator = "rest",
                                !.iteratorWake = FALSE]
    /\ UNCHANGED db
    /\ UNCHANGED exceptWiggle

\* perpetualStorageWiggleIterator: the stop signal changed
IteratorWoken ==
    /\ WiggleRunning
    /\ wiggle.iterator = "choose"
    /\ wiggle.iteratorWake
    /\ wiggle' = iteratorAfterChoose(wiggle)
    /\ UNCHANGED db
    /\ UNCHANGED exceptWiggle

\* perpetualStorageWiggleIterator: one delay of its rest
IteratorRested ==
    /\ WiggleRunning
    /\ wiggle.iterator = "rest"
    /\ LET takeRest == Cardinality(wiggle.pid2server_info) <= storageTeamSize
                       \/ Cardinality(wiggle.pid2server_info) < storageTeamSize
       IN wiggle' = [wiggle EXCEPT !.doBuildTeams = TRUE,
                                   !.iterator = IF takeRest THEN "rest" ELSE "update"]
    /\ UNCHANGED db
    /\ UNCHANGED exceptWiggle

\* perpetualStorageWiggleIterator: updateNextWigglingStoragePID commits
IteratorUpdated ==
    /\ WiggleRunning
    /\ wiggle.iterator = "update"
    /\ db' = [db EXCEPT !.wigglingStorageServer = nextWigglingStoragePID(wiggle, db)]
    /\ wiggle' = iteratorAfterChoose(
                     writePid(wiggle, db, nextWigglingStoragePID(wiggle, db)))
    /\ UNCHANGED exceptWiggle

\* removeServer: a storage server is removed once its data has moved off it
WiggledServerRemoved(pid) ==
    /\ WiggleRunning
    /\ pid \in wiggle.pid2server_info
    /\ wiggle.excludedServers[wiggle.address[pid]] # "NONE"
    /\ wiggle' = [wiggle EXCEPT !.pid2server_info = @ \ {pid},
                                !.moveFinishFuture.waiting = @ \ {pid},
                                !.teams = teamsWithout(@, {pid}),
                                !.removedSince =
                                    IF wiggle.excludedServers[wiggle.address[pid]] = "WIGGLING"
                                       /\ @ # "other"
                                    THEN "WIGGLING" ELSE "other"]
    /\ UNCHANGED db
    /\ UNCHANGED exceptWiggle

\* addServer: the recruiter has placed a storage server on a process that is not
\* excluded
WiggledServerRecruited(pid) ==
    /\ WiggleRunning
    /\ pid \notin wiggle.pid2server_info
    /\ wiggle.excludedServers[wiggle.address[pid]] = "NONE"
    /\ \A p \in wiggle.pid2server_info : wiggle.address[p] # wiggle.address[pid]
    /\ wiggle' = [wiggle EXCEPT !.pid2server_info = @ \cup {pid}]
    /\ UNCHANGED db
    /\ UNCHANGED exceptWiggle

\* the sets of at most one element
AtMostOne(S) == {{}} \cup {{a} : a \in S}

\* trackExcludedServers, one round, with the addresses it read as excluded and failed
trackExcludedServers(w, excluded, failed) ==
    [w EXCEPT !.excludedServers = [a \in Addresses |->
        IF a \in failed THEN "FAILED"
        ELSE IF a \in excluded THEN "EXCLUDED"
        ELSE IF @[a] = "WIGGLING" THEN "WIGGLING"
        ELSE "NONE"]]

TrackExcludedServers(excluded, failed) ==
    /\ WiggleRunning
    /\ wiggle.budget > 0
    /\ trackExcludedServers(wiggle, excluded, failed) # wiggle
    /\ wiggle' = [trackExcludedServers(wiggle, excluded, failed) EXCEPT !.budget = @ - 1]
    /\ UNCHANGED db
    /\ UNCHANGED exceptWiggle

\* storageServerTracker: a server at a wiggling address whose process is not the one
\* being wiggled resets the address
InvalidWiggleServer(pid) ==
    /\ WiggleRunning
    /\ pid \in wiggle.pid2server_info
    /\ wiggle.excludedServers[wiggle.address[pid]] = "WIGGLING"
    /\ pid # wiggle.wigglingPid
    /\ wiggle' = [wiggle EXCEPT !.excludedServers[wiggle.address[pid]] = "NONE"]
    /\ UNCHANGED db
    /\ UNCHANGED exceptWiggle

\* storageServerTracker, interfaceChanged: the process of a storage server has come
\* back at an address no other storage server uses
WiggleInterfaceChanged(pid, addr) ==
    /\ WiggleRunning
    /\ wiggle.budget > 0
    /\ pid \in wiggle.pid2server_info
    /\ \A p \in wiggle.pid2server_info : wiggle.address[p] # addr
    /\ wiggle' = [wiggle EXCEPT !.address[pid] = addr, !.budget = @ - 1]
    /\ UNCHANGED db
    /\ UNCHANGED exceptWiggle

\* the team trackers count the healthy teams
HealthyTeamCountChanged(n) ==
    /\ WiggleRunning
    /\ wiggle.budget > 0
    /\ n # wiggle.healthyTeamCount
    /\ wiggle' = [wiggle EXCEPT !.healthyTeamCount = n, !.budget = @ - 1]
    /\ UNCHANGED db
    /\ UNCHANGED exceptWiggle

WiggleNext ==
    \/ MonitorRead
    \/ MonitorStopped
    \/ MonitorWatchFired
    \/ \E value \in {"0", "1"} : Configure(value)
    \/ WigglerStart
    \/ WigglerWatchFired
    \/ WigglerReadPid
    \/ WigglerDelayed
    \/ WigglerMoveFinished
    \/ WigglerWoken
    \/ \E count \in {0, DD_STORAGE_WIGGLE_PAUSE_THRESHOLD},
          stuck \in {0, DD_STORAGE_WIGGLE_PAUSE_THRESHOLD + 1,
                     DD_STORAGE_WIGGLE_STUCK_THRESHOLD + 1} : ClusterHealthCheck(count, stuck)
    \/ IteratorSignalled
    \/ IteratorWoken
    \/ IteratorRested
    \/ IteratorUpdated
    \/ \E pid \in Pids : WiggledServerRemoved(pid)
    \/ \E pid \in Pids : WiggledServerRecruited(pid)
    \/ \E pid \in Pids, addr \in Addresses : WiggleInterfaceChanged(pid, addr)
    \/ \E excluded \in AtMostOne(Addresses), failed \in AtMostOne(Addresses) :
           TrackExcludedServers(excluded, failed)
    \/ \E pid \in Pids : InvalidWiggleServer(pid)
    \/ \E n \in 0 .. NumWiggleTeams : HealthyTeamCountChanged(n)

WiggleSpec == Init /\ [][WiggleNext]_vars

\* the wiggle is disabled, its two actors have returned and no address is left
\* excluded for it
wiggleDisabled ==
    /\ wiggle.monitor = "watch"
    /\ wiggle.stopWiggleSignal
    /\ wiggle.wiggler = "off"
    /\ wiggle.iterator = "off"
    /\ wiggle.wiggle_addresses = {}
    /\ \A a \in Addresses : wiggle.excludedServers[a] # "WIGGLING"

SelectionServers == 1 .. NumSelectionServers

\* a server that is not in server_info
ForeignServer == NumSelectionServers + 1

\* what a server can report: available and capacity in units of MIN_AVAILABLE_SPACE
Capacity == 100
Metrics ==
    {[present |-> TRUE, available |-> 40, capacity |-> Capacity, load |-> 1],
     [present |-> TRUE, available |-> 10, capacity |-> Capacity, load |-> 1],
     [present |-> TRUE, available |-> 40, capacity |-> Capacity, load |-> 3]}

\* the teams that are built: of storageTeamSize 2, each server with the next
SelectableTeams == {<<s, s + 1>> : s \in 1 .. NumSelectionServers - 1}

\* the requests that are sent
GetTeamRequests ==
    {[wantsNewServers |-> p, wantsTrueBest |-> b, preferLowerUtilization |-> p,
      teamMustHaveShards |-> ~p,
      completeSources |-> IF p THEN <<>> ELSE <<ForeignServer, 2, 1>>] :
        b \in BOOLEAN, p \in BOOLEAN}

\* stands for std::numeric_limits<int64_t>::max()
Int64Max == 2147483647

\* TCTeamInfo::isHealthy of the team object with these servers
isHealthy(ts, serverIDs) ==
    \E i \in 1 .. Len(ts.teams) : ts.teams[i].serverIDs = serverIDs /\ ts.teams[i].healthy

RECURSIVE bytesSum(_, _, _)
bytesSum(ts, serverIDs, i) ==
    IF i > Len(serverIDs) THEN 0
    ELSE (IF ts.serverMetrics[serverIDs[i]].present
          THEN ts.serverMetrics[serverIDs[i]].load ELSE 0) + bytesSum(ts, serverIDs, i + 1)

\* TCTeamInfo::getLoadAverage
getLoadAverage(ts, serverIDs) ==
    LET added == Cardinality({i \in 1 .. Len(serverIDs) :
                                 ts.serverMetrics[serverIDs[i]].present})
        sum == IF added < Len(serverIDs) THEN bytesSum(ts, serverIDs, 1) * 2
               ELSE bytesSum(ts, serverIDs, 1)
    IN  IF added = 0 THEN 0 ELSE sum \div added

RECURSIVE minAvailableSpace(_, _, _)
minAvailableSpace(ts, serverIDs, i) ==
    IF i > Len(serverIDs) THEN Int64Max
    ELSE IF ts.serverMetrics[serverIDs[i]].present
         THEN Min(ts.serverMetrics[serverIDs[i]].available,
                  minAvailableSpace(ts, serverIDs, i + 1))
         ELSE minAvailableSpace(ts, serverIDs, i + 1)

\* TCTeamInfo::getMinAvailableSpace
getMinAvailableSpace(ts, serverIDs) == minAvailableSpace(ts, serverIDs, 1)

RECURSIVE minRatio(_, _, _)
minRatio(ts, serverIDs, i) ==
    IF i > Len(serverIDs) THEN 100
    ELSE IF ts.serverMetrics[serverIDs[i]].present
         THEN Min(IF ts.serverMetrics[serverIDs[i]].capacity = 0 THEN 0
                  ELSE (ts.serverMetrics[serverIDs[i]].available * 100)
                           \div ts.serverMetrics[serverIDs[i]].capacity,
                  minRatio(ts, serverIDs, i + 1))
         ELSE minRatio(ts, serverIDs, i + 1)

\* TCTeamInfo::getMinAvailableSpaceRatio, in percent
getMinAvailableSpaceRatio(ts, serverIDs) == minRatio(ts, serverIDs, 1)

\* TCTeamInfo::getLoadBytes: the multiplier is AVAILABLE_SPACE_RATIO_CUTOFF over the
\* ratio cut to [0.000001, AVAILABLE_SPACE_RATIO_CUTOFF], squared for more than 2 servers
getLoadBytes(ts, serverIDs) ==
    LET ratio == getMinAvailableSpaceRatio(ts, serverIDs)
        num == IF ratio >= AVAILABLE_SPACE_RATIO_CUTOFF THEN 1
               ELSE IF ratio = 0 THEN AVAILABLE_SPACE_RATIO_CUTOFF * 10000
               ELSE AVAILABLE_SPACE_RATIO_CUTOFF
        den == IF ratio >= AVAILABLE_SPACE_RATIO_CUTOFF \/ ratio = 0 THEN 1 ELSE ratio
    IN  IF Len(serverIDs) > 2
        THEN (getLoadAverage(ts, serverIDs) * num * num) \div (den * den)
        ELSE (getLoadAverage(ts, serverIDs) * num) \div den

\* TCTeamInfo::hasHealthyAvailableSpace
hasHealthyAvailableSpace(ts, serverIDs, ratio) ==
    /\ getMinAvailableSpaceRatio(ts, serverIDs) >= ratio
    /\ getMinAvailableSpace(ts, serverIDs) > MIN_AVAILABLE_SPACE

\* ShardsAffectedByTeamFailure::hasShards
hasShards(ts, serverIDs) == serverIDs \in ts.shards

\* getTeam, its start: medianAvailableSpace is computed again when
\* AVAILABLE_SPACE_UPDATE_DELAY has passed since it was computed
updateMedianAvailableSpace(ts) ==
    LET healthy == {i \in 1 .. Len(ts.teams) : ts.teams[i].healthy}
        ratioOf(i) == getMinAvailableSpaceRatio(ts, ts.teams[i].serverIDs)
        pivot == Cardinality(healthy) \div 2
        nth == CHOOSE v \in {ratioOf(i) : i \in healthy} :
                   /\ Cardinality({i \in healthy : ratioOf(i) < v}) <= pivot
                   /\ pivot < Cardinality({i \in healthy : ratioOf(i) <= v})
    IN  IF ~ts.elapsed THEN ts
        ELSE [ts EXCEPT !.elapsed = FALSE,
                        !.medianAvailableSpace =
                            IF Cardinality(healthy) > 1
                            THEN Max(MIN_AVAILABLE_SPACE_RATIO,
                                     Min(TARGET_AVAILABLE_SPACE_RATIO, nth))
                            ELSE MIN_AVAILABLE_SPACE_RATIO]

\* the teams of the servers of completeSources whose servers are all in
\* completeSources, in the order in which the two loops of getTeam meet them
RECURSIVE sourceTeams(_, _, _)
sourceTeams(ts, completeSources, i) ==
    IF i > Len(completeSources) THEN <<>>
    ELSE IF completeSources[i] \notin SelectionServers
         THEN sourceTeams(ts, completeSources, i + 1)
         ELSE SelectSeq(ts.serverTeams[completeSources[i]],
                        LAMBDA serverIDs : Range(serverIDs) \subseteq Range(completeSources))
                  \o sourceTeams(ts, completeSources, i + 1)

\* req.reply.send: the reply, what held when it was sent, and whether the call before
\* had the same request and met the same teams, health, metrics and shards
reply(ts, req, team, fallback) ==
    [ts EXCEPT !.req = req,
               !.reply = team,
               !.replyHealthy = isHealthy(ts, team),
               !.replyZeroHealthyTeams = ts.zeroHealthyTeams,
               !.fallback = fallback,
               !.repeated = (ts.calls > 0 /\ req = ts.req /\ ~ts.changed),
               !.changed = FALSE,
               !.calls = @ + 1]

\* getTeam with wantsTrueBest, the loop from startIndex on: best is the index of
\* bestOption, or -1, and its bestLoadBytes
RECURSIVE trueBest(_, _, _, _, _)
trueBest(ts, req, startIndex, i, best) ==
    LET currentIndex == (startIndex + i) % Len(ts.teams)
        serverIDs == ts.teams[currentIndex + 1].serverIDs
        loadBytes == getLoadBytes(ts, serverIDs)
        better == /\ ts.teams[currentIndex + 1].healthy
                  /\ \/ ~req.preferLowerUtilization
                     \/ hasHealthyAvailableSpace(ts, serverIDs, ts.medianAvailableSpace)
                  /\ \/ best.index = -1
                     \/ req.preferLowerUtilization /\ loadBytes < best.loadBytes
                     \/ ~req.preferLowerUtilization /\ loadBytes > best.loadBytes
                  /\ ~req.teamMustHaveShards \/ hasShards(ts, serverIDs)
    IN  IF i >= Len(ts.teams) THEN best
        ELSE trueBest(ts, req, startIndex, i + 1,
                      IF better THEN [index |-> currentIndex, loadBytes |-> loadBytes]
                      ELSE best)

\* getTeam without wantsTrueBest: whether randomChoice may pick this team
okDest(ts, req, i) ==
    /\ ts.teams[i].healthy
    /\ \/ ~req.preferLowerUtilization
       \/ hasHealthyAvailableSpace(ts, ts.teams[i].serverIDs, ts.medianAvailableSpace)
    /\ ~req.teamMustHaveShards \/ hasShards(ts, ts.teams[i].serverIDs)

\* the randomTeams that the loop of random choices can end with: distinct teams that
\* are ok, fewer than BEST_TEAM_OPTION_COUNT when BEST_TEAM_MAX_TEAM_TRIES choices
\* failed, which a choice of a team already chosen does as well
canChoose(ts, req, randomTeams) ==
    /\ Len(randomTeams) <= BEST_TEAM_OPTION_COUNT
    /\ \A k \in 1 .. Len(randomTeams) :
           /\ randomTeams[k] \in 1 .. Len(ts.teams)
           /\ okDest(ts, req, randomTeams[k])
           /\ \A l \in 1 .. Len(randomTeams) : randomTeams[l] = randomTeams[k] => l = k
    /\ Len(randomTeams) = 0 => \E i \in 1 .. Len(ts.teams) : ~okDest(ts, req, i)

\* the best of randomTeams, the first of those with the same load
RECURSIVE bestOfRandomTeams(_, _, _, _, _)
bestOfRandomTeams(ts, req, randomTeams, i, best) ==
    LET loadBytes == getLoadBytes(ts, ts.teams[randomTeams[i]].serverIDs)
        better == \/ best.index = -1
                  \/ req.preferLowerUtilization /\ loadBytes < best.loadBytes
                  \/ ~req.preferLowerUtilization /\ loadBytes > best.loadBytes
    IN  IF i > Len(randomTeams) THEN best
        ELSE bestOfRandomTeams(ts, req, randomTeams, i + 1,
                               IF better
                               THEN [index |-> randomTeams[i] - 1, loadBytes |-> loadBytes]
                               ELSE best)

NoBest == [index |-> -1, loadBytes |-> 0]

\* getTeam, the choice of bestOption and what it leaves in the collection
startAfterBest(ts, req) ==
    LET startIndex == IF req.preferLowerUtilization THEN ts.lowestUtilizationTeam
                      ELSE ts.highestUtilizationTeam
    IN  (startIndex + 1) % Len(ts.teams)

startIndexOf(ts, req) ==
    LET startIndex == IF req.preferLowerUtilization THEN ts.lowestUtilizationTeam
                      ELSE ts.highestUtilizationTeam
    IN  IF startIndex >= Len(ts.teams) THEN 0 ELSE startIndex

bestIndexOf(ts, req) ==
    LET best == trueBest(ts, req, startIndexOf(ts, req), 0, NoBest)
    IN  IF best.index = -1 THEN startIndexOf(ts, req) ELSE best.index

moveStartIndex(ts, req, bestIndex) ==
    IF req.preferLowerUtilization THEN [ts EXCEPT !.lowestUtilizationTeam = bestIndex]
    ELSE [ts EXCEPT !.highestUtilizationTeam = bestIndex]

countStuck(ts, randomTeams) ==
    [ts EXCEPT !.bestTeamKeepStuckCount =
                   IF Len(randomTeams) = 0 /\ ~ts.zeroHealthyTeams THEN @ + 1 ELSE 0]

bestOption(ts, req, randomTeams) ==
    LET best == IF req.wantsTrueBest THEN trueBest(ts, req, startIndexOf(ts, req), 0, NoBest)
                ELSE bestOfRandomTeams(ts, req, randomTeams, 1, NoBest)
    IN  IF best.index = -1 THEN NoOption ELSE ts.teams[best.index + 1].serverIDs

\* getTeam, the end: the team chosen, or with no healthy team a team of the sources
fallbackAlways(ts, req, best) ==
    IF best = NoOption /\ sourceTeams(ts, req.completeSources, 1) # <<>>
    THEN reply(ts, req, sourceTeams(ts, req.completeSources, 1)[1], TRUE)
    ELSE reply(ts, req, best, FALSE)

fallbackOrBest(ts, req, best) ==
    IF best = NoOption /\ ts.zeroHealthyTeams /\ sourceTeams(ts, req.completeSources, 1) # <<>>
    THEN reply(ts, req, sourceTeams(ts, req.completeSources, 1)[1], TRUE)
    ELSE reply(ts, req, best, FALSE)

selected(ts, req, randomTeams) ==
    fallbackOrBest(IF req.wantsTrueBest THEN moveStartIndex(ts, req, bestIndexOf(ts, req))
                   ELSE countStuck(ts, randomTeams),
                   req, bestOption(ts, req, randomTeams))

\* getTeam, the healthy team of the sources that is replied first of all
healthySources(ts, req) ==
    SelectSeq(sourceTeams(ts, req.completeSources, 1), LAMBDA serverIDs : isHealthy(ts, serverIDs))

getTeam(ts, req, randomTeams) ==
    IF Len(ts.teams) = 0 THEN reply(ts, req, NoOption, FALSE)
    ELSE IF ~req.wantsNewServers /\ healthySources(ts, req) # <<>>
    THEN reply(ts, req, healthySources(ts, req)[1], FALSE)
    ELSE selected(ts, req, randomTeams)

\* the sequences of team indices that randomChoice can produce
RandomTeams ==
    UNION {{r \in [1 .. n -> 1 .. NumSelectionServers] :
               \A k, l \in 1 .. n : r[k] = r[l] => k = l} : n \in 0 .. NumSelectionServers}

GetTeam(req, randomTeams) ==
    /\ teamSelection.calls < MaxGetTeamCalls
    /\ IF req.wantsTrueBest \/ Len(teamSelection.teams) = 0
          \/ (~req.wantsNewServers /\ healthySources(updateMedianAvailableSpace(teamSelection), req) # <<>>)
       THEN randomTeams = <<>>
       ELSE canChoose(updateMedianAvailableSpace(teamSelection), req, randomTeams)
    /\ teamSelection' = getTeam(updateMedianAvailableSpace(teamSelection), req, randomTeams)
    /\ UNCHANGED exceptSelection

\* now() passes lastMedianAvailableSpaceUpdate + AVAILABLE_SPACE_UPDATE_DELAY
TimePassed ==
    /\ ~teamSelection.elapsed
    /\ teamSelection' = [teamSelection EXCEPT !.elapsed = TRUE]
    /\ UNCHANGED exceptSelection

\* teamTracker: healthyTeamCount and zeroHealthyTeams follow the team's health
countHealthy(ts, delta) ==
    [ts EXCEPT !.healthyTeamCount = @ + delta,
               !.zeroHealthyTeams = (ts.healthyTeamCount + delta = 0)]

RECURSIVE pushServerTeams(_, _, _)
pushServerTeams(ts, serverIDs, i) ==
    IF i > Len(serverIDs) THEN ts
    ELSE pushServerTeams([ts EXCEPT !.serverTeams[serverIDs[i]] = Append(@, serverIDs)],
                  serverIDs, i + 1)

\* addTeam of a team that is not bad, and the first round of its teamTracker
TeamAdded(serverIDs, healthy) ==
    /\ \A i \in 1 .. Len(teamSelection.teams) : teamSelection.teams[i].serverIDs # serverIDs
    /\ teamSelection' =
           [countHealthy(pushServerTeams(teamSelection, serverIDs, 1), IF healthy THEN 1 ELSE 0)
               EXCEPT !.teams = Append(@, [serverIDs |-> serverIDs, healthy |-> healthy]),
                      !.changed = TRUE]
    /\ UNCHANGED exceptSelection

\* teamTracker seeing the health of its team change
TeamHealthChanged(i) ==
    /\ teamSelection.budget > 0
    /\ i <= Len(teamSelection.teams)
    /\ teamSelection' =
           [countHealthy(teamSelection, IF teamSelection.teams[i].healthy THEN -1 ELSE 1)
               EXCEPT !.teams[i].healthy = ~@,
                      !.changed = TRUE,
                      !.budget = @ - 1]
    /\ UNCHANGED exceptSelection

\* a vector with the element at index i replaced by the last one
swapRemove(v, i) ==
    IF i = Len(v) THEN SubSeq(v, 1, Len(v) - 1)
    ELSE SubSeq([v EXCEPT ![i] = v[Len(v)]], 1, Len(v) - 1)

RECURSIVE eraseServerTeams(_, _, _)
eraseServerTeams(ts, serverIDs, i) ==
    IF i > Len(serverIDs) THEN ts
    ELSE eraseServerTeams([ts EXCEPT !.serverTeams[serverIDs[i]] =
                                  swapRemove(@, CHOOSE t \in 1 .. Len(@) : @[t] = serverIDs)],
                   serverIDs, i + 1)

\* removeTeam, which cancels the teamTracker of the team
TeamRemoved(i) ==
    /\ teamSelection.budget > 0
    /\ i <= Len(teamSelection.teams)
    /\ teamSelection' =
           [countHealthy(eraseServerTeams(teamSelection, teamSelection.teams[i].serverIDs, 1),
                         IF teamSelection.teams[i].healthy THEN -1 ELSE 0)
               EXCEPT !.teams = swapRemove(@, i),
                      !.changed = TRUE,
                      !.budget = @ - 1]
    /\ UNCHANGED exceptSelection

\* updateServerMetrics storing the reply of a server
MetricsUpdated(s, metrics) ==
    /\ teamSelection.budget > 0
    /\ teamSelection.serverMetrics[s] # metrics
    /\ teamSelection' = [teamSelection EXCEPT !.serverMetrics[s] = metrics,
                                              !.changed = TRUE,
                                              !.budget = @ - 1]
    /\ UNCHANGED exceptSelection

\* shardsAffectedByTeamFailure giving a team its first shard, or taking its last
ShardsMoved(serverIDs) ==
    /\ teamSelection.budget > 0
    /\ teamSelection' =
           [teamSelection EXCEPT !.shards = IF serverIDs \in @ THEN @ \ {serverIDs}
                                            ELSE @ \cup {serverIDs},
                                 !.changed = TRUE,
                                 !.budget = @ - 1]
    /\ UNCHANGED exceptSelection

SelectionNext ==
    \/ \E req \in GetTeamRequests, randomTeams \in RandomTeams : GetTeam(req, randomTeams)
    \/ TimePassed
    \/ \E serverIDs \in SelectableTeams, healthy \in BOOLEAN : TeamAdded(serverIDs, healthy)
    \/ \E i \in SelectionServers : TeamHealthChanged(i)
    \/ \E i \in SelectionServers : TeamRemoved(i)
    \/ \E s \in SelectionServers, metrics \in Metrics : MetricsUpdated(s, metrics)
    \/ \E serverIDs \in SelectableTeams : ShardsMoved(serverIDs)

SelectionSpec == Init /\ [][SelectionNext]_vars

\* ---- storageRecruiter and initializeStorage ------------------------------------
\* The cluster controller answers a RecruitStorageRequest with a worker whose address
\* is not among its excludeAddresses, or with any worker when the request is a
\* criticalRecruitment.  A send on a promise runs the actor that waits
\* for it at once, as Flow does.  usableRegions is 1, excludedServers and
\* invalidLocalityAddr are empty, the interfaceId of an initializeStorage actor is
\* its number, the killTss promises that the recruiter sends are not followed, and an error thrown by
\* initializeStorage ends the collection.
RecruitAddresses == 1 .. NumRecruitAddresses
RecruitIds == 1 .. MaxRecruits

\* dcId and dataHallId of the worker at an address
zoneOf(a) == (a + 1) \div 2

\* numExistingSSOnAddr
numExistingSSOnAddr(r, a) == r.existing[a] + r.failedOn[a]

\* TSSPairState::markComplete; the actorCollection of the recruiter counts the
\* future of complete off inProgressTSSCount
markComplete(r, p) ==
    IF p # 0 /\ r.pairs[p].active /\ ~r.pairs[p].complete
    THEN [r EXCEPT !.pairs[p].complete = TRUE, !.inProgressTSSCount = @ - 1]
    ELSE r

\* the actor of the SS half that waits for the TSS of a pair, 0 if none does
waitingOnTSS(r, p) ==
    IF \E j \in RecruitIds : r.actors[j].pc = "waitOnTSS" /\ r.actors[j].tssState = p
    THEN CHOOSE j \in RecruitIds : r.actors[j].pc = "waitOnTSS" /\ r.actors[j].tssState = p
    ELSE 0

\* DDTeamCollection::addServer of a recruited server, which is not failed
addRecruited(r, a, tss) ==
    [r EXCEPT !.existing[a] = @ + 1,
              !.tss_info_by_pair = IF tss THEN @ + 1 ELSE @]

\* initializeStorage sending its request to the worker
tryGetReply(r, i) ==
    [r EXCEPT !.actors[i].pc = "tryGetReply",
              !.sent = [address |-> r.actors[i].address,
                        numExistingSS |-> numExistingSSOnAddr(r, r.actors[i].address)]]

returnedStreamKept(r, i) ==
    [r EXCEPT !.actors[i].pc = "done", !.restartRecruiting = TRUE]

\* initializeStorage, its last statements
initializeStorageReturned(r, i) ==
    [r EXCEPT !.actors[i].pc = "done", !.restartRecruiting = TRUE,
              !.recruitingStream = @ - 1]

RECURSIVE finishRecruit(_, _)
RECURSIVE endRecruit(_, _)

\* initializeStorage from the erase of its address to its return
finishRecruit(r, i) ==
    LET inst == r.actors[i]
        p == inst.tssState
        resumed(s) == IF waitingOnTSS(s, p) # 0
                      THEN finishRecruit([s EXCEPT !.actors[waitingOnTSS(s, p)].tssSuccessful =
                                                       "true"],
                                         waitingOnTSS(s, p))
                      ELSE s
        added(s) == markComplete(addRecruited(s, inst.address, inst.recruitTss), p)
        withServer(s) ==
            IF inst.newServer # "present" THEN s
            ELSE IF ~inst.recruitTss THEN added(s)
            ELSE IF s.pairs[p].active /\ s.pairs[p].tssPairDone = "unset"
                 THEN added(resumed([s EXCEPT !.pairs[p].tssPairDone = "true"]))
                 ELSE s
    IN  endRecruit(withServer([r EXCEPT !.actors[i].pc = "finish",
                                        !.recruitingIds = @ \ {i},
                                        !.recruitingLocalities = @ \ {inst.address}]), i)

\* initializeStorage, its end: tssRecruitFailed with markComplete, or ssRecruitFailed,
\* and restartRecruiting.trigger
endRecruit(r, i) ==
    LET inst == r.actors[i]
        p == inst.tssState
        resumedSS(s) == IF waitingOnTSS(s, p) # 0
                        THEN finishRecruit([s EXCEPT !.actors[waitingOnTSS(s, p)].tssSuccessful =
                                                         "false"],
                                           waitingOnTSS(s, p))
                        ELSE s
        tssRecruitFailed(s) ==
            IF p # 0 /\ s.pairs[p].active /\ s.pairs[p].tssPairDone = "unset"
            THEN markComplete(resumedSS([s EXCEPT !.pairs[p].tssPairDone = "false"]), p)
            ELSE s
        resumedTSS(s) == IF s.actors[p].pc = "waitOnSS"
                         THEN finishRecruit([s EXCEPT !.actors[p].newServer = "error"], p)
                         ELSE s
        ssRecruitFailed(s) ==
            IF p # 0 /\ s.pairs[p].active /\ s.pairs[p].ssPairInfo = "unset"
            THEN resumedTSS([s EXCEPT !.pairs[p].ssPairInfo = "empty"])
            ELSE s
    IN  initializeStorageReturned(
            IF inst.recruitTss THEN tssRecruitFailed(r) ELSE ssRecruitFailed(r), i)

\* initializeStorage up to its first wait
recruitOnBusyAddress(r, a, recruitTss, p) ==
    LET i == r.started + 1
        begun == [r EXCEPT !.started = i,
                           !.recruitingStream = @ + 1,
                           !.actors[i] = [address |-> a, recruitTss |-> recruitTss,
                                          tssState |-> p, pc |-> "start", prepared |-> FALSE,
                                          newServer |-> "none", tssSuccessful |-> "none"]]
        prepared(s) == [s EXCEPT !.recruitingIds = @ \cup {i},
                                 !.recruitingLocalities = @ \cup {a},
                                 !.actors[i].prepared = TRUE]
    IN  IF numExistingSSOnAddr(r, a) <= 2
        THEN IF recruitTss THEN [prepared(begun) EXCEPT !.actors[i].pc = "waitOnSS"]
             ELSE tryGetReply(prepared(begun), i)
        ELSE endRecruit(begun, i)

initializeStorage(r, a, recruitTss, p) ==
    LET i == r.started + 1
        begun == [r EXCEPT !.started = i,
                           !.recruitingStream = @ + 1,
                           !.actors[i] = [address |-> a, recruitTss |-> recruitTss,
                                          tssState |-> p, pc |-> "start", prepared |-> FALSE,
                                          newServer |-> "none", tssSuccessful |-> "none"]]
        prepared(s) == [s EXCEPT !.recruitingIds = @ \cup {i},
                                 !.recruitingLocalities = @ \cup {a},
                                 !.actors[i].prepared = TRUE]
    IN  IF numExistingSSOnAddr(r, a) <= 2 /\ a \notin r.recruitingLocalities
        THEN IF recruitTss THEN [prepared(begun) EXCEPT !.actors[i].pc = "waitOnSS"]
             ELSE tryGetReply(prepared(begun), i)
        ELSE endRecruit(begun, i)

\* initializeStorage when the worker answers: the SS half of a pair sends its id to
\* the TSS half, which then sends its own request, and waits for it
replied(r, i, result) ==
    LET inst == r.actors[i]
        p == inst.tssState
        present == [r EXCEPT !.actors[i].newServer = "present"]
        resumedTSS(s) == IF s.actors[p].pc = "waitOnSS" THEN tryGetReply(s, p) ELSE s
        signalled(s) == resumedTSS([s EXCEPT !.pairs[p].ssPairInfo = "present"])
        waitOnTSS(s) == IF s.pairs[p].tssPairDone # "unset"
                        THEN finishRecruit([s EXCEPT !.actors[i].tssSuccessful =
                                                         s.pairs[p].tssPairDone], i)
                        ELSE [s EXCEPT !.actors[i].pc = "waitOnTSS"]
    IN  IF result = "ok"
        THEN IF ~inst.recruitTss /\ p # 0 /\ r.pairs[p].active /\ r.pairs[p].ssPairInfo = "unset"
             THEN waitOnTSS(signalled(present))
             ELSE finishRecruit(present, i)
        ELSE IF result \in {"recruitment_failed", "request_maybe_delivered"}
        THEN [r EXCEPT !.actors[i].newServer = "error", !.actors[i].pc = "delay"]
        ELSE [markComplete(r, p) EXCEPT !.actors[i].pc = "thrown", !.error = TRUE]

\* TSSPairState::cancel
cancelTssPairDoneOnly(r, p) ==
    IF p # 0 /\ r.pairs[p].active /\ r.pairs[p].ssPairInfo = "unset"
       /\ r.pairs[p].tssPairDone = "unset"
    THEN markComplete([r EXCEPT !.pairs[p].tssPairDone = "false"], p)
    ELSE r

cancel(r, p) ==
    LET resumedTSS(s) == IF s.actors[p].pc = "waitOnSS"
                         THEN finishRecruit([s EXCEPT !.actors[p].newServer = "error"], p)
                         ELSE s
        done(s) == IF s.pairs[p].tssPairDone = "unset"
                   THEN [s EXCEPT !.pairs[p].tssPairDone = "false"] ELSE s
    IN  IF p # 0 /\ r.pairs[p].active /\ r.pairs[p].ssPairInfo = "unset"
           /\ r.pairs[p].tssPairDone = "unset"
        THEN markComplete(done(resumedTSS([r EXCEPT !.pairs[p].ssPairInfo = "empty"])), p)
        ELSE r

\* storageRecruiter from the start of its loop to the choose
recruiterLoop(r) ==
    LET newTssToRecruit == desiredTSSCount - r.tss_info_by_pair - r.inProgressTSSCount
        check == /\ newTssToRecruit # r.tssToRecruit
                 /\ ~r.pendingTSSCheck
                 /\ newTssToRecruit < 0 \/ r.zeroHealthyTeams
                 /\ r.isTssRecruiting \/ (r.zeroHealthyTeams /\ r.tss_info_by_pair > 0)
        rsr == [excludeAddresses |-> {a \in RecruitAddresses : r.existing[a] > 0}
                                         \cup r.recruitingLocalities,
                criticalRecruitment |-> (r.healthyTeamCount = 0)]
        request == r.fCandidateWorker \in {"invalid", "ready"} \/ rsr # r.lastRequest
    IN  [r EXCEPT !.tssToRecruit = newTssToRecruit,
                  !.checkTss = IF check THEN "ready" ELSE @,
                  !.numSSPerAddr = r.existing,
                  !.hasHealthyTeam = (r.healthyTeamCount # 0),
                  !.lastRequest = IF request THEN rsr ELSE @,
                  !.fCandidateWorker = IF request THEN "pending" ELSE @,
                  !.zeroHealthyChanged = FALSE,
                  !.recruiter = "choose"]

\* storageRecruiter, the candidate worker of the cluster controller
startUnpaired(r, a) ==
    LET i == r.started + 1
    IN  IF r.hasHealthyTeam /\ r.tssToRecruit > 0
        THEN [initializeStorage(
                  [r EXCEPT !.isTssRecruiting = TRUE,
                            !.tssState = i,
                            !.pairs[i] = [NoPair EXCEPT !.active = TRUE, !.zone = zoneOf(a)],
                            !.inProgressTSSCount = @ + 1],
                  a, TRUE, i) EXCEPT !.checkTss = "ready"]
        ELSE initializeStorage(r, a, FALSE, 0)

candidateWorker(r, a) ==
    LET i == r.started + 1
    IN  IF r.hasHealthyTeam /\ r.tssState = 0 /\ r.tssToRecruit > 0
        THEN [initializeStorage(
                  [r EXCEPT !.isTssRecruiting = TRUE,
                            !.tssState = i,
                            !.pairs[i] = [NoPair EXCEPT !.active = TRUE, !.zone = zoneOf(a)],
                            !.inProgressTSSCount = @ + 1],
                  a, TRUE, i) EXCEPT !.checkTss = "ready"]
        ELSE IF r.tssState # 0 /\ r.pairs[r.tssState].zone = zoneOf(a)
        THEN [initializeStorage([r EXCEPT !.isTssRecruiting = FALSE,
                                          !.pairs[r.tssState].ss = i],
                                a, FALSE, r.tssState) EXCEPT !.tssState = 0]
        ELSE initializeStorage(r, a, FALSE, 0)

\* storageRecruiter, checkTss
checkedTss(r) ==
    LET cancelTss == r.isTssRecruiting /\ (r.tssToRecruit < 0 \/ r.zeroHealthyTeams)
        tssToKill == Min(r.tss_info_by_pair,
                         Max(-r.tssToRecruit, IF r.zeroHealthyTeams THEN 1 ELSE 0))
    IN  IF cancelTss
        THEN [cancel(r, r.tssState) EXCEPT !.tssState = 0,
                                           !.isTssRecruiting = FALSE,
                                           !.pendingTSSCheck = TRUE,
                                           !.checkTss = "delay"]
        ELSE IF tssToKill > 0 \/ r.isTssRecruiting
        THEN [r EXCEPT !.pendingTSSCheck = TRUE, !.checkTss = "delay"]
        ELSE [r EXCEPT !.pendingTSSCheck = FALSE, !.checkTss = "never"]

RecruiterLoop ==
    /\ ~recruitment.error
    /\ recruitment.recruiter \in {"start", "delay"}
    /\ recruitment' = recruiterLoop(recruitment)
    /\ UNCHANGED exceptRecruitment

CandidateWorker(a) ==
    /\ ~recruitment.error
    /\ recruitment.recruiter = "choose"
    /\ recruitment.fCandidateWorker = "pending"
    /\ \/ a \notin recruitment.lastRequest.excludeAddresses
       \/ recruitment.lastRequest.criticalRecruitment
    /\ recruitment.started < MaxRecruits
    /\ recruitment' = [candidateWorker(recruitment, a) EXCEPT !.fCandidateWorker = "ready",
                                                              !.recruiter = "delay"]
    /\ UNCHANGED exceptRecruitment

ZeroHealthyTeamsChanged ==
    /\ ~recruitment.error
    /\ recruitment.recruiter = "choose"
    /\ recruitment.zeroHealthyChanged
    /\ recruitment' =
           [recruitment EXCEPT
               !.checkTss = IF /\ ~recruitment.pendingTSSCheck
                               /\ recruitment.zeroHealthyTeams
                               /\ \/ recruitment.isTssRecruiting
                                  \/ recruitment.tss_info_by_pair > 0
                            THEN "ready" ELSE @,
               !.recruiter = "delay"]
    /\ UNCHANGED exceptRecruitment

CheckTss ==
    /\ ~recruitment.error
    /\ recruitment.recruiter = "choose"
    /\ recruitment.checkTss # "never"
    /\ recruitment' = [checkedTss(recruitment) EXCEPT !.recruiter = "delay"]
    /\ UNCHANGED exceptRecruitment

RestartRecruiting ==
    /\ ~recruitment.error
    /\ recruitment.recruiter = "choose"
    /\ recruitment.restartRecruiting
    /\ recruitment' = [recruitment EXCEPT !.restartRecruiting = FALSE, !.recruiter = "delay"]
    /\ UNCHANGED exceptRecruitment

Replied(i, result) ==
    /\ ~recruitment.error
    /\ recruitment.actors[i].pc = "tryGetReply"
    /\ recruitment' = replied(recruitment, i, result)
    /\ UNCHANGED exceptRecruitment

\* STORAGE_RECRUITMENT_DELAY is over
RecruitmentDelayOver(i) ==
    /\ ~recruitment.error
    /\ recruitment.actors[i].pc = "delay"
    /\ recruitment' = finishRecruit(recruitment, i)
    /\ UNCHANGED exceptRecruitment

\* TSS_RECRUITMENT_TIMEOUT is over
TssTimedOut(i) ==
    /\ ~recruitment.error
    /\ recruitment.actors[i].pc = "waitOnTSS"
    /\ recruitment' = finishRecruit([recruitment EXCEPT !.actors[i].tssSuccessful = "absent"], i)
    /\ UNCHANGED exceptRecruitment

\* storageServerTracker seeing a server fail
RecruitedServerFailed(a) ==
    /\ ~recruitment.error
    /\ recruitment.budget > 0
    /\ recruitment.existing[a] > 0
    /\ recruitment' = [recruitment EXCEPT !.existing[a] = @ - 1,
                                          !.failedOn[a] = @ + 1,
                                          !.budget = @ - 1]
    /\ UNCHANGED exceptRecruitment

\* teamTracker counting the first healthy team, or the last one off
RecruiterHealthChanged ==
    /\ ~recruitment.error
    /\ recruitment.budget > 0
    /\ recruitment' = [recruitment EXCEPT !.healthyTeamCount = 1 - @,
                                          !.zeroHealthyTeams = ~@,
                                          !.zeroHealthyChanged = (recruitment.recruiter = "choose"),
                                          !.budget = @ - 1]
    /\ UNCHANGED exceptRecruitment

RecruitNext ==
    \/ RecruiterLoop
    \/ \E a \in RecruitAddresses : CandidateWorker(a)
    \/ ZeroHealthyTeamsChanged
    \/ CheckTss
    \/ RestartRecruiting
    \/ \E i \in RecruitIds,
          result \in {"ok", "recruitment_failed", "request_maybe_delivered", "io_error"} :
           Replied(i, result)
    \/ \E i \in RecruitIds : RecruitmentDelayOver(i)
    \/ \E i \in RecruitIds : TssTimedOut(i)
    \/ \E a \in RecruitAddresses : RecruitedServerFailed(a)
    \/ RecruiterHealthChanged

RecruitSpec == Init /\ [][RecruitNext]_vars

\* ---- the requests of the collection's tasks ----------------------------------------
RpcResults == {"ok", "recruitment_failed", "request_maybe_delivered", "io_error"}

\* the answer to a request of task, by which the budget of answers shrinks
answered(r, task, result) ==
    [r EXCEPT !.replies = @ - 1, !.last = [task |-> task, result |-> result]]

\* storageServerTracker starts serverMetricsPolling, and updateServerMetrics sends its
\* first request
MetricsPollingStarted ==
    /\ rpcs.metrics = "none"
    /\ rpcs' = [rpcs EXCEPT !.metrics = "request"]
    /\ UNCHANGED <<recruitment, exceptRpcs>>

\* updateServerMetrics, when(metricsRequest): a reply ends the round, an error starts
\* METRIC_DELAY
metricsThrown(r, present) ==
    IF present THEN [r EXCEPT !.metrics = "delayUntil"]
    ELSE [r EXCEPT !.metrics = "thrown", !.error = TRUE]

metricsReplied(r, present) ==
    IF present THEN [r EXCEPT !.metrics = "delayUntil"]
    ELSE [r EXCEPT !.metrics = "reset"]

MetricsReplied(present) ==
    /\ ~rpcs.error /\ ~recruitment.error
    /\ rpcs.metrics = "request"
    /\ rpcs.replies > 0
    /\ rpcs' = metricsReplied(answered(rpcs, "updateServerMetrics",
                                       IF present THEN "ok" ELSE "request_maybe_delivered"),
                              present)
    /\ UNCHANGED <<recruitment, exceptRpcs>>

\* updateServerMetrics, when(resetRequest): it waits for the failure monitor if the
\* endpoint is failed, and sends the request again if not
ResetRequestFired(isFailed) ==
    /\ ~rpcs.error /\ ~recruitment.error
    /\ rpcs.metrics \in {"reset", "endpointFailed"}
    /\ rpcs' = [rpcs EXCEPT !.metrics = IF isFailed THEN "endpointFailed" ELSE "request"]
    /\ UNCHANGED <<recruitment, exceptRpcs>>

\* serverMetricsPolling: delayUntil is over, updateServerMetrics is called again
MetricsPollingDelayOver ==
    /\ ~rpcs.error /\ ~recruitment.error
    /\ rpcs.metrics = "delayUntil"
    /\ rpcs' = [rpcs EXCEPT !.metrics = "request"]
    /\ UNCHANGED <<recruitment, exceptRpcs>>

\* waitServerListChange, when(checkSignal)
CheckSignalFired ==
    /\ ~rpcs.error /\ ~recruitment.error
    /\ rpcs.serverList = "delay"
    /\ rpcs' = [rpcs EXCEPT !.serverList = "fetching"]
    /\ UNCHANGED <<recruitment, exceptRpcs>>

\* waitServerListChange, when(serverListAndProcessClasses): the results start
\* SERVER_LIST_DELAY, an error goes to the catch block
ServerListRead(ok) ==
    /\ ~rpcs.error /\ ~recruitment.error
    /\ rpcs.serverList = "fetching"
    /\ rpcs.replies > 0
    /\ rpcs' = [answered(rpcs, "waitServerListChange",
                         IF ok THEN "ok" ELSE "request_maybe_delivered")
                   EXCEPT !.serverList = IF ok THEN "delay" ELSE "onError"]
    /\ UNCHANGED <<recruitment, exceptRpcs>>

\* Transaction::onError after an error that can be retried: it returns after its
\* back-off, and the task goes on at pc
onError(pc) == pc

\* waitServerListChange, its catch block: checkSignal is Void() and the choose reads
\* again at once
ServerListErrorHandled ==
    /\ ~rpcs.error /\ ~recruitment.error
    /\ rpcs.serverList = "onError"
    /\ rpcs' = [rpcs EXCEPT !.serverList = onError("fetching")]
    /\ UNCHANGED <<recruitment, exceptRpcs>>

\* trackExcludedServers: the four reads are through and the watches are set, or an
\* error goes to the catch block
ExclusionsRead(ok) ==
    /\ ~rpcs.error /\ ~recruitment.error
    /\ rpcs.excluded = "reading"
    /\ rpcs.replies > 0
    /\ rpcs' = [answered(rpcs, "trackExcludedServers",
                         IF ok THEN "ok" ELSE "request_maybe_delivered")
                   EXCEPT !.excluded = IF ok THEN "watching" ELSE "onError"]
    /\ UNCHANGED <<recruitment, exceptRpcs>>

\* trackExcludedServers: a watch fired, or the catch block is through: it reads again
ExclusionsReadAgain ==
    /\ ~rpcs.error /\ ~recruitment.error
    /\ rpcs.excluded \in {"watching", "onError"}
    /\ rpcs' = [rpcs EXCEPT !.excluded = onError("reading")]
    /\ UNCHANGED <<recruitment, exceptRpcs>>

\* initializeStorage when the worker answers
InitializeStorageReplied(i, result) ==
    /\ ~rpcs.error /\ ~recruitment.error
    /\ recruitment.actors[i].pc = "tryGetReply"
    /\ rpcs.replies > 0
    /\ recruitment' = replied(recruitment, i, result)
    /\ rpcs' = answered(rpcs, "initializeStorage", result)
    /\ UNCHANGED exceptRpcs

RpcNext ==
    \/ RecruiterLoop
    \/ \E a \in RecruitAddresses : CandidateWorker(a)
    \/ RestartRecruiting
    \/ \E i \in RecruitIds, result \in RpcResults : InitializeStorageReplied(i, result)
    \/ \E i \in RecruitIds : RecruitmentDelayOver(i)
    \/ MetricsPollingStarted
    \/ \E present \in BOOLEAN : MetricsReplied(present)
    \/ \E isFailed \in BOOLEAN : ResetRequestFired(isFailed)
    \/ MetricsPollingDelayOver
    \/ CheckSignalFired
    \/ \E ok \in BOOLEAN : ServerListRead(ok)
    \/ ServerListErrorHandled
    \/ \E ok \in BOOLEAN : ExclusionsRead(ok)
    \/ ExclusionsReadAgain

RpcSpec == Init /\ [][RpcNext]_vars

\* the initializeStorage actors that have begun and have neither returned nor thrown,
\* and those among them that have inserted their interface ID and address
recruitsInProgress(r) ==
    {i \in RecruitIds : r.actors[i].pc \notin {"none", "done", "thrown"}}

recruitsThrown(r) == {i \in RecruitIds : r.actors[i].pc = "thrown"}

recruitsCounted(r, tasks) ==
    /\ r.recruitingStream = Cardinality(tasks)
    /\ r.recruitingIds = {i \in tasks : r.actors[i].prepared}
    /\ r.recruitingLocalities = {r.actors[i].address : i \in r.recruitingIds}

\* C35: recruitingStream is the number of initializeStorage actors in progress, and
\* recruitingIds and recruitingLocalities hold the interface IDs and the addresses of
\* those of them that inserted theirs, however the others ended
C35_RecruitingStreamCountsTasks ==
    recruitsCounted(recruitment, recruitsInProgress(recruitment))

\* C35, amended: the same with the actors that ended by throwing counted as well,
\* since they leave their interface ID and address and do not count themselves off
C35_RecruitingStreamCountsThrownToo ==
    recruitsCounted(recruitment,
                    recruitsInProgress(recruitment) \cup recruitsThrown(recruitment))

\* an actor has returned after it inserted its ID, another has thrown
C35_Witness ==
    /\ \E i \in RecruitIds : recruitment.actors[i].pc = "done"
                              /\ recruitment.actors[i].prepared
    /\ recruitsThrown(recruitment) # {}
    /\ recruitment.recruitingStream = Cardinality(recruitsThrown(recruitment))

\* ---- properties ----------------------------------------------------------------
\* DDTeamCollection::isOnSameMachineTeam
isOnSameMachineTeam(tc, t) ==
    LET servers == tc.teamObj[t].servers
        machineIDs == SortIds([i \in 1 .. Len(servers) |-> tc.server_info[servers[i]].machine])
        numExistance ==
            Cardinality({i \in 1 .. Len(servers) :
                \E k \in 1 .. Len(tc.machine_info[tc.server_info[servers[i]].machine].machineTeams) :
                    SortIds(tc.machineTeamObj[
                        tc.machine_info[tc.server_info[servers[i]].machine].machineTeams[k]].machineIDs)
                        = machineIDs})
    IN /\ \A i \in 1 .. Len(servers) : tc.server_info[servers[i]].machine # 0
       /\ numExistance = Len(servers)

\* DDTeamCollection::sanityCheckTeams
sanityCheckTeams(tc) == \A i \in 1 .. Len(tc.teams) : isOnSameMachineTeam(tc, tc.teams[i])

\* DDTeamCollection::isServerTeamCountCorrect
isServerTeamCountCorrect(tc, mt) ==
    LET num == Cardinality({i \in 1 .. Len(tc.teams) :
                   tc.machineTeamObj[tc.teamObj[tc.teams[i]].machineTeam].machineIDs
                       = tc.machineTeamObj[mt].machineIDs})
    IN num = Len(tc.machineTeamObj[mt].serverTeams)

\* the server teams of machine team mt are the teams of the good-team list whose
\* machineTeam is mt, each once
serverTeamsExact(tc, mt) ==
    LET serverTeams == tc.machineTeamObj[mt].serverTeams
    IN \A t \in TeamIds :
           Cardinality({k \in 1 .. Len(serverTeams) : serverTeams[k] = t})
               = IF Contains(tc.teams, t) /\ tc.teamObj[t].machineTeam = mt THEN 1 ELSE 0

\* C39: at every yield point, for every machine team mt, mt.serverTeams holds
\* exactly the teams of the good-team list whose machineTeam is mt, each once, and
\* isServerTeamCountCorrect(mt) is true
C39_ServerTeamsOfMachineTeam ==
    AtYield =>
        \A k \in 1 .. Len(self.machineTeams) :
            /\ isServerTeamCountCorrect(self, self.machineTeams[k])
            /\ serverTeamsExact(self, self.machineTeams[k])

\* the zoneIds the members of a team live on now
ZonesOf(tc, t) == {tc.server_info[s].zone : s \in Range(tc.teamObj[t].servers)}

\* C1: at every yield point, for every registered server s and every team t of
\* the good-team list, t is in s.teams if and only if s is a member of t
C1_TeamsOfServerAreTeamsWithServer ==
    AtYield =>
        \A s \in RegisteredServers(self) : \A i \in 1 .. Len(self.teams) :
            Contains(self.server_info[s].teams, self.teams[i])
                <=> Contains(self.teamObj[self.teams[i]].servers, s)

\* a server was removed while a team of other servers stays in the good-team list
C1_Witness ==
    /\ AtYield /\ last.op = "ServerRemoved"
    /\ Len(self.teams) > 0
    /\ \E s \in RegisteredServers(self) : Len(self.server_info[s].teams) > 0

\* C2: at every yield point every team of the good-team list refers to a machine
\* team that is in the machine-team list and whose machine IDs are the zoneIds
\* its members live on, and sanityCheckTeams() is true
C2_TeamsAreOnMachineTeams ==
    AtYield =>
        /\ sanityCheckTeams(self)
        /\ \A i \in 1 .. Len(self.teams) :
              LET machineTeam == self.teamObj[self.teams[i]].machineTeam
              IN /\ machineTeam # 0
                 /\ Contains(self.machineTeams, machineTeam)
                 /\ Range(self.machineTeamObj[machineTeam].machineIDs) = ZonesOf(self, self.teams[i])

\* a member's zoneId changed, its old machine went, and its team is a good team
C2_Witness ==
    /\ AtYield /\ last.op = "InterfaceChanged"
    /\ Len(self.server_info[last.server].teams) > 0
    /\ Contains(self.teams, self.server_info[last.server].teams[1])
    /\ Cardinality({z \in Zones : self.machine_info[z].present}) = 2

\* C3, as claimed: at every yield point every team of the good-team list has
\* storageTeamSize members and satisfies the replication policy on the zoneIds
\* its members have now
C3_GoodTeamsSatisfyPolicy ==
    AtYield =>
        \A i \in 1 .. Len(self.teams) :
            LET servers == self.teamObj[self.teams[i]].servers
            IN /\ Len(servers) = storageTeamSize
               /\ PolicySatisfied([k \in 1 .. Len(servers) |-> self.server_info[servers[k]].zone])

\* C4: at every yield point healthyTeamCount is the number of teams with a live
\* tracker and a true healthy flag, none of them a bad team, and is not negative
C4_HealthyTeamCount ==
    AtYield =>
        /\ self.healthyTeamCount
             = Cardinality({t \in TeamIds : self.teamObj[t].tracker = "live" /\ self.teamObj[t].healthy})
        /\ \A i \in 1 .. Len(self.badTeams) : ~self.teamObj[self.badTeams[i]].healthy
        /\ self.healthyTeamCount >= 0

\* a team tracker saw its team turn unhealthy while another team is counted
C4_Witness ==
    /\ AtYield /\ last.op = "TeamTrackerRun"
    /\ self.healthyTeamCount > 0
    /\ \E i \in 1 .. Len(self.teams) : ~self.teamObj[self.teams[i]].healthy

\* C5: at every yield point zeroHealthyTeams is true exactly when
\* healthyTeamCount is 0
C5_ZeroHealthyTeams == AtYield => (self.zeroHealthyTeams <=> self.healthyTeamCount = 0)

\* the tracker of the last healthy team was cancelled with the removal of a member
C5_Witness ==
    /\ AtYield /\ last.op = "ServerRemoved"
    /\ self.zeroHealthyTeams
    /\ \E s \in RegisteredServers(self) : ~isUnhealthy(self.server_status[s])

\* C6, as claimed: a server is removed from the database only after
\* getNumberOfShards(server) = 0 and a read version greater than
\* addedVersion + MAX_READ_TRANSACTION_LIFE_VERSIONS were observed
C6_RemovedOnlyAfterDataRemoved ==
    \A s \in Servers :
        removedBy[s] # "none" => observed[s].version /\ observed[s].noShards

\* C6: a server that its own tracker removes from the database and the registry
\* is removed only after getNumberOfShards(server) = 0 and a read version greater
\* than addedVersion + MAX_READ_TRANSACTION_LIFE_VERSIONS were observed; while
\* either is missing the tracker does not start the removal
C6_TrackerRemovesOnlyAfterDataRemoved ==
    \A s \in Servers :
        /\ removedBy[s] = "tracker" => observed[s].version /\ observed[s].noShards
        /\ ssTracker[s].pc \in {"removing", "gone"} => observed[s].version /\ observed[s].noShards

\* a server's tracker has just removed it
C6_Witness ==
    \E s \in Servers : removedBy[s] = "tracker" /\ last.op = "ServerRemoved" /\ last.server = s

\* C7: immediately after removeServer(S), no team of the good-team list or the
\* bad-team list contains S, no other server's teams hold a team with S, S is in
\* neither the registry nor the status map, and recruitingIds does not hold S
C7_RemovedServerIsGone ==
    (AtYield /\ last.op = "ServerRemoved") =>
        /\ \A i \in 1 .. Len(self.teams) : ~Contains(self.teamObj[self.teams[i]].servers, last.server)
        /\ \A i \in 1 .. Len(self.badTeams) :
              ~Contains(self.teamObj[self.badTeams[i]].servers, last.server)
        /\ \A o \in Servers \ {last.server} : \A k \in 1 .. Len(self.server_info[o].teams) :
              ~Contains(self.teamObj[self.server_info[o].teams[k]].servers, last.server)
        /\ ~self.server_info[last.server].registered
        /\ ~self.server_status[last.server].initialized
        /\ last.server \notin self.recruitingIds

\* a server was removed while a recruitment is in flight and other servers stay
C7_Witness ==
    /\ AtYield /\ last.op = "ServerRemoved"
    /\ self.recruitingIds # {}
    /\ RegisteredServers(self) # {}

\* C8: at every yield point each registered server is once in serversOnMachine of
\* the machine of its zoneId, in no other machine's, and server.machine is that machine
C8_ServerOnItsMachine ==
    AtYield =>
        \A s \in RegisteredServers(self) :
            /\ self.server_info[s].machine = self.server_info[s].zone
            /\ self.machine_info[self.server_info[s].zone].present
            /\ \A z \in Zones :
                  Count(self.machine_info[z].serversOnMachine, s)
                      = IF z = self.server_info[s].zone THEN 1 ELSE 0

\* a server's zoneId changed to the zone of another server, all servers registered
C8_Witness ==
    /\ AtYield /\ last.op = "InterfaceChanged"
    /\ Len(self.machine_info[self.server_info[last.server].zone].serversOnMachine) = 2
    /\ RegisteredServers(self) = Servers

\* C9: at every yield point no machine of the registry has an empty
\* serversOnMachine; a machine that is gone holds nothing and no machine team of
\* the machine-team list or of a machine's list contains it
C9_NoEmptyMachine ==
    AtYield =>
        /\ \A z \in Zones :
              IF self.machine_info[z].present
              THEN Len(self.machine_info[z].serversOnMachine) > 0
              ELSE self.machine_info[z] = NoMachineInfo
        /\ \A i \in 1 .. Len(self.machineTeams) :
              \A z \in Range(self.machineTeamObj[self.machineTeams[i]].machineIDs) :
                  self.machine_info[z].present
        /\ \A y \in Zones : \A k \in 1 .. Len(self.machine_info[y].machineTeams) :
              \A z \in Range(self.machineTeamObj[self.machine_info[y].machineTeams[k]].machineIDs) :
                  self.machine_info[z].present

\* the only server of a machine moved to the machine of the only other server
C9_Witness ==
    /\ AtYield /\ last.op = "InterfaceChanged"
    /\ Len(self.machine_info[self.server_info[last.server].zone].serversOnMachine) = 2
    /\ Cardinality(RegisteredServers(self)) = 2
    /\ \A s \in Servers : ssTracker[s].pc \in {"absent", "tracking"}

\* C10: at every yield point unhealthyServers is the number of registered servers
\* whose published status is unhealthy, and is not negative
C10_UnhealthyServers ==
    AtYield =>
        /\ self.unhealthyServers
             = Cardinality({s \in RegisteredServers(self) :
                               self.server_status[s].initialized
                               /\ isUnhealthy(self.server_status[s])})
        /\ self.unhealthyServers >= 0

\* an unhealthy server was removed while another unhealthy server stays
C10_Witness ==
    /\ AtYield /\ last.op = "ServerRemoved"
    /\ self.unhealthyServers > 0


\* C11: the wiggler adopts a process ID only when none is being wiggled: neither of
\* its two assertions that wigglingPid is not present fails, whatever the order of
\* enabling, disabling, pauses, finished moves and key watches.
C11_SingleWigglingPid == ~wiggle.assertFailed

\* the wiggle was enabled, disabled and enabled again, and the second wiggler has
\* adopted a process ID and waits for its servers to be removed
C11_Witness ==
    /\ db.writes >= 3
    /\ db.perpetualStorageWiggle = "1"
    /\ wiggle.wiggler = "choose"
    /\ wiggle.wigglingPid \in Pids
    /\ wiggle.moveFinishFuture.set
    /\ wiggle.moveFinishFuture.waiting # {}
    /\ wiggle.finishStorageWiggleSignal > 0

\* C12: the step that cancels the tracker of a team takes one from healthyTeamCount
\* exactly if the tracker had counted the team healthy, one from optimalTeamCount
\* exactly if it had counted the team optimal, and one from the bucket of the team's
\* priority, leaves every other bucket alone, and leaves no zero-server-left logger
\* of the team running.
C12_CancelReleasesContribution ==
    [][\A t \in TrackedTeamIds :
          teamTrackers.team[t].tracker = "running" /\ teamTrackers'.team[t].tracker = "cancelled"
          => /\ teamTrackers'.healthyTeamCount =
                    teamTrackers.healthyTeamCount
                        - (IF teamTrackers.team[t].lastHealthy THEN 1 ELSE 0)
             /\ teamTrackers'.optimalTeamCount =
                    teamTrackers.optimalTeamCount
                        - (IF teamTrackers.team[t].lastOptimal THEN 1 ELSE 0)
             /\ teamTrackers'.priority_teams =
                    [teamTrackers.priority_teams EXCEPT ![teamTrackers.team[t].priority] = @ - 1]
             /\ teamTrackers'.team[t].zeroServerLeftLogger # "running"]_vars

\* a tracker was cancelled that had counted its team healthy and optimal, and
\* another one whose zero-server-left logger was running
C12_Witness ==
    \E t, u \in TrackedTeamIds :
        /\ teamTrackers.team[t].tracker = "cancelled"
        /\ teamTrackers.team[t].lastHealthy
        /\ teamTrackers.team[t].lastOptimal
        /\ teamTrackers.team[u].tracker = "cancelled"
        /\ teamTrackers.team[u].zeroServerLeftLogger = "cancelled"
        /\ teamTrackers.healthyTeamCount = 0
        /\ teamTrackers.optimalTeamCount = 0
        /\ \A p \in Priorities : teamTrackers.priority_teams[p] = 0

\* C13: a collection that was torn down cancelled its team builder first, then the
\* trackers of its teams and bad teams, then the trackers of its servers, every
\* actor it had started among them, and released its members last; no collection
\* that is left still points to it.
C13_TeardownOrder ==
    \A c \in Regions :
        ~teamCollections[c].alive =>
            LET log == teamCollections[c].destructed
            IN /\ log[1].actor = "teamBuilder"
               /\ log[Len(log)].actor = "members"
               /\ \A i, j \in 1 .. Len(log) :
                      /\ log[i].actor \in {"teams", "badTeams"}
                      /\ log[j].actor = "server_and_tss_info"
                      => i < j
               /\ \A list \in {"teams", "badTeams", "server_and_tss_info"}, i \in 1 .. MaxTornDown :
                      teamCollections[c][list][i] # "none"
                      => /\ teamCollections[c][list][i] = "cancelled"
                         /\ \E n \in 2 .. Len(log) - 1 : log[n] = [actor |-> list, id |-> i]
               /\ \A d \in Regions, j \in Regions :
                      teamCollections[d].alive => teamCollections[d].teamCollections[j] # c
               /\ \A d \in Regions : ~teamCollections[d].useAfterFree

\* the primary collection was torn down with trackers of teams, bad teams and
\* servers running, and a tracker of the remote collection has found the pointer null
C13_Witness ==
    /\ ~teamCollections["primary"].alive
    /\ teamCollections["primary"].teams[1] = "cancelled"
    /\ teamCollections["primary"].badTeams[1] = "cancelled"
    /\ teamCollections["primary"].server_and_tss_info[2] = "cancelled"
    /\ teamCollections["remote"].alive
    /\ teamCollections["remote"].teamCollections["primary"] = "nullptr"
    /\ teamCollections["remote"].teams[1] = "thrown"

\* C14 as stated: every step that changes the status stored for an address in the
\* exclusion map is a round of trackExcludedServers.
C14_OnlyTrackExcludedServersWrites ==
    [][wiggle'.excludedServers # wiggle.excludedServers
       => \E excluded \in AtMostOne(Addresses), failed \in AtMostOne(Addresses) :
              TrackExcludedServers(excluded, failed)]_vars

\* C14: every step that changes the status stored for an address and is not a round
\* of trackExcludedServers, that is a step of the wiggler or of a storageServerTracker,
\* changes it from NONE to WIGGLING or from WIGGLING to NONE.
C14_OthersWriteOnlyWiggling ==
    [][\/ \E excluded \in AtMostOne(Addresses), failed \in AtMostOne(Addresses) :
              TrackExcludedServers(excluded, failed)
       \/ \A a \in Addresses :
              wiggle'.excludedServers[a] # wiggle.excludedServers[a]
              => {wiggle.excludedServers[a], wiggle'.excludedServers[a]} = {"NONE", "WIGGLING"}]_vars

\* the wiggler has marked the address of the process it wiggles while the exclusion
\* tracker has excluded another address
C14_Witness ==
    /\ wiggle.wigglingPid \in Pids
    /\ wiggle.excludedServers[wiggle.address[wiggle.wigglingPid]] = "WIGGLING"
    /\ \E a \in Addresses : wiggle.excludedServers[a] \in {"EXCLUDED", "FAILED"}

C16_HealthyOrFallback ==
    teamSelection.calls > 0 /\ teamSelection.reply # NoOption
    => /\ ~teamSelection.replyZeroHealthyTeams => teamSelection.replyHealthy
       /\ ~teamSelection.replyHealthy
          => /\ teamSelection.fallback
             /\ teamSelection.replyZeroHealthyTeams
             /\ Range(teamSelection.reply) \subseteq Range(teamSelection.req.completeSources)

\* getTeam has replied a team that is not healthy
C16_Witness ==
    /\ teamSelection.calls > 0
    /\ teamSelection.reply # NoOption
    /\ ~teamSelection.replyHealthy
    /\ teamSelection.fallback

\* C17 as stated: a call of getTeam with wantsTrueBest that follows a call with the
\* same request, with no change to the teams, their health, the metrics or the shards
\* in between, replies the same team.
C17_SameTeamTwice ==
    [][/\ teamSelection'.calls = teamSelection.calls + 1
       /\ teamSelection'.repeated
       /\ teamSelection'.req.wantsTrueBest
       => teamSelection'.reply = teamSelection.reply]_vars

\* C17: such a call replies the same team when it does not compute
\* medianAvailableSpace again.
C17_SameTeamSameMedian ==
    [][/\ teamSelection'.calls = teamSelection.calls + 1
       /\ teamSelection'.repeated
       /\ teamSelection'.req.wantsTrueBest
       /\ ~teamSelection.elapsed
       => teamSelection'.reply = teamSelection.reply]_vars

\* the second of two such calls has replied a team, of two healthy ones, and the
\* first call had moved the start index
C17_Witness ==
    /\ teamSelection.repeated
    /\ teamSelection.req.wantsTrueBest
    /\ teamSelection.reply # NoOption
    /\ teamSelection.healthyTeamCount > 1
    /\ teamSelection.lowestUtilizationTeam + teamSelection.highestUtilizationTeam > 0

\* the initializeStorage actors that have started and not returned
Recruiting == {i \in RecruitIds : recruitment.actors[i].pc \in {"waitOnSS", "tryGetReply", "delay", "waitOnTSS"}}

\* C18: no request to initialize a storage server is sent to a worker whose address
\* has 2 servers in server_and_tss_info.
C18_NoThirdServerOnAddress == recruitment.sent.numExistingSS < 2

\* C19: at most one initializeStorage has a request at the worker of an address; an
\* actor that has prepared its request has its address in recruitingLocalities until
\* it returns; and the actor started for a candidate whose address is there sends
\* no request.
C19_OneRequestPerAddress ==
    [][/\ \A i, j \in RecruitIds :
              /\ recruitment'.actors[i].pc = "tryGetReply"
              /\ recruitment'.actors[j].pc = "tryGetReply"
              /\ recruitment'.actors[i].address = recruitment'.actors[j].address
              => i = j
       /\ \A i \in RecruitIds :
              recruitment'.actors[i].pc \in {"waitOnSS", "tryGetReply", "delay", "waitOnTSS"}
              => recruitment'.actors[i].address \in recruitment'.recruitingLocalities
       /\ \A a \in RecruitAddresses :
              a \in recruitment.recruitingLocalities /\ CandidateWorker(a)
              => /\ recruitment'.sent = recruitment.sent
                 /\ \A i \in RecruitIds : recruitment'.actors[i].pc = "tryGetReply"
                                           => recruitment.actors[i].pc = "tryGetReply"]_vars

\* a request is at the worker of an address, and the actor started for a later
\* candidate at this address has returned without a request
C19_Witness ==
    \E i, j \in RecruitIds :
        /\ i < j
        /\ recruitment.actors[i].pc = "tryGetReply"
        /\ recruitment.actors[j].pc = "done"
        /\ ~recruitment.actors[j].prepared
        /\ recruitment.actors[j].address = recruitment.actors[i].address
        /\ numExistingSSOnAddr(recruitment, recruitment.actors[i].address) < 2

\* C20 as stated: at most one initializeStorage of a TSS has started and not returned.
C20_OneTssRecruitment ==
    Cardinality({i \in Recruiting : recruitment.actors[i].recruitTss}) <= 1

\* C20: at most one initializeStorage of a TSS waits for a pair whose SS half has
\* not been started.
C20_OneTssWithoutPair ==
    Cardinality({i \in Recruiting : /\ recruitment.actors[i].recruitTss
                                    /\ recruitment.pairs[i].ss = 0}) <= 1

\* a TSS waits for an SS to pair with while the TSS half of an earlier pair has
\* not returned
C20_Witness ==
    \E i, j \in Recruiting :
        /\ i < j
        /\ recruitment.actors[i].recruitTss
        /\ recruitment.pairs[i].ss # 0
        /\ recruitment.actors[j].recruitTss
        /\ recruitment.pairs[j].ss = 0
        /\ recruitment.actors[j].pc = "waitOnSS"
\* C21: an SS half whose wait for its TSS half timed out is in the registry, and
\* the TSS half of its pair is never registered as a successful recruitment.
C21_TimedOutTssNeverRegistered ==
    \A i \in RecruitIds :
        LET inst == recruitment.actors[i]
        IN  inst.pc = "done" /\ inst.tssSuccessful = "absent"
            => /\ numExistingSSOnAddr(recruitment, inst.address) > 0
               /\ recruitment.pairs[inst.tssState].tssPairDone # "true"

\* C22: when the recruiter cancels its active pair state, the pair is complete
\* afterwards with tssPairDone false, the TSS half that waited for the SS got no pair
\* info and has returned without a server, no TSS was registered, and no actor still
\* waits on the pair.
C22_CancelCompletesPair ==
    [][\A p \in RecruitIds :
           /\ recruitment.tssState = p
           /\ recruitment'.tssState = 0
           /\ recruitment'.started = recruitment.started
           => /\ recruitment'.pairs[p].complete
              /\ recruitment'.pairs[p].tssPairDone = "false"
              /\ recruitment.actors[p].pc = "waitOnSS"
                 => recruitment'.pairs[p].ssPairInfo = "empty"
              /\ recruitment'.actors[p].pc = "done"
              /\ recruitment'.actors[p].newServer # "present"
              /\ recruitment'.tss_info_by_pair = recruitment.tss_info_by_pair
              /\ \A j \in RecruitIds :
                     recruitment'.actors[j].tssState = p
                     => recruitment'.actors[j].pc \notin {"waitOnSS", "waitOnTSS"}]_vars

\* a pair that was cancelled while its TSS half waited for an SS
C22_Witness ==
    \E p \in RecruitIds :
        /\ recruitment.pairs[p].active
        /\ recruitment.pairs[p].ss = 0
        /\ recruitment.pairs[p].ssPairInfo = "empty"
        /\ recruitment.pairs[p].complete
        /\ recruitment.actors[p].pc = "done"
        /\ recruitment.tssState = 0

TrackerRound(t) ==
    \/ \E badTeam \in BOOLEAN, redundantTeam \in BOOLEAN : TrackerStarted(t, badTeam, redundantTeam)
    \/ TrackerWoken(t)

SetMax(S) == CHOOSE x \in S : \A y \in S : y <= x

\* the priority the claim gives the request for a shard: the highest of the team's
\* own and of the teams, of the primary and of the remote, that the shard is on
claimedPriority(k, t, sh) ==
    IF k.team[t].round.containsFailed THEN PRIORITY_TEAM_FAILED
    ELSE SetMax({k.team[t].priority}
                \cup {k.team[u].priority : u \in {v \in DOMAIN k.team :
                          Contains(k.shardTeams[sh], TeamRef(TRUE, k.team[v].servers))}}
                \cup {k.remote.priority : x \in {v \in {1} :
                          Contains(k.shardTeams[sh], TeamRef(FALSE, RemoteTeam))}})

considered(teams) ==
    {j \in 1 .. Len(teams) : \A i \in 1 .. j - 1 : Len(teams[i].servers) > 0}

\* the tracker looks at the teams of the shard and one of them is of the remote
\* collection, which is gone
meetsDestructed(k, t, sh) ==
    /\ ~k.team[t].round.containsFailed
    /\ k.team[t].priority < PRIORITY_TEAM_FAILED
    /\ ~k.remote.alive
    /\ \E j \in considered(k.shardTeams[sh]) :
           Len(k.shardTeams[sh][j].servers) > 0 /\ ~k.shardTeams[sh][j].primary

sentPriority(k, t, sh) ==
    IF k.team[t].round.containsFailed THEN PRIORITY_TEAM_FAILED
    ELSE IF k.team[t].priority >= PRIORITY_TEAM_FAILED THEN k.team[t].priority
    ELSE SetMax({k.team[t].priority}
                \cup {IF Len(k.shardTeams[sh][j].servers) = 0 THEN PRIORITY.POPULATE_REGION
                      ELSE foundPriority(k, t, k.shardTeams[sh][j]) :
                      j \in considered(k.shardTeams[sh])})

membersWith(field) ==
    {i \in 1 .. Len(priorityOf.statuses) : priorityOf.statuses[i][field]}

readServersLeft == Len(priorityOf.statuses) - Cardinality(membersWith("isFailed"))

wigglingCoversAll ==
    /\ membersWith("isWiggling") # {}
    /\ membersWith("isUndesired") \subseteq membersWith("isWiggling")
    /\ membersWith("isWrongConfiguration") \subseteq membersWith("isWiggling")

tableTail ==
    IF priorityOf.badTeam \/ membersWith("isWrongConfiguration") # {}
    THEN IF priorityOf.redundantTeam THEN PRIORITY.TEAM_REDUNDANT
         ELSE PRIORITY.TEAM_UNHEALTHY
    ELSE IF membersWith("isUndesired") # {} THEN PRIORITY.TEAM_CONTAINS_UNDESIRED_SERVER
    ELSE PRIORITY.TEAM_HEALTHY

\* C25 as stated: the priority a tracker computes is the first matching row of the
\* table, where the rows for 0, 1 and 2 servers left come before the comparison with
\* the team size and the wiggle row does not ask whether the team is bad
C25_FirstMatchingRow ==
    priorityOf.priority # 0 =>
        priorityOf.priority =
            IF Len(priorityOf.statuses) = 0 THEN PRIORITY.POPULATE_REGION
            ELSE IF readServersLeft = 0 THEN PRIORITY.TEAM_0_LEFT
            ELSE IF readServersLeft = 1 THEN PRIORITY.TEAM_1_LEFT
            ELSE IF readServersLeft = 2 THEN PRIORITY.TEAM_2_LEFT
            ELSE IF readServersLeft < priorityOf.storageTeamSize THEN PRIORITY.TEAM_UNHEALTHY
            ELSE IF wigglingCoversAll THEN PRIORITY.PERPETUAL_STORAGE_WIGGLE
            ELSE tableTail

\* C25, amended: the priority a tracker computes is the first matching row of the
\* table in which the rows for 0, 1 and 2 servers left apply only to a team with fewer
\* servers left than the configured team size, and the wiggle row only to a team that
\* is not bad
C25_FirstMatchingRowBelowTeamSize ==
    priorityOf.priority # 0 =>
        priorityOf.priority =
            IF Len(priorityOf.statuses) = 0 THEN PRIORITY.POPULATE_REGION
            ELSE IF readServersLeft < priorityOf.storageTeamSize /\ readServersLeft = 0
                 THEN PRIORITY.TEAM_0_LEFT
            ELSE IF readServersLeft < priorityOf.storageTeamSize /\ readServersLeft = 1
                 THEN PRIORITY.TEAM_1_LEFT
            ELSE IF readServersLeft < priorityOf.storageTeamSize /\ readServersLeft = 2
                 THEN PRIORITY.TEAM_2_LEFT
            ELSE IF readServersLeft < priorityOf.storageTeamSize THEN PRIORITY.TEAM_UNHEALTHY
            ELSE IF ~priorityOf.badTeam /\ wigglingCoversAll
                 THEN PRIORITY.PERPETUAL_STORAGE_WIGGLE
            ELSE tableTail

\* a team of the configured size 2 with both servers left, one of them wiggling and
\* the other as desired, was given the wiggle priority
C25_Witness ==
    /\ priorityOf.priority = PRIORITY.PERPETUAL_STORAGE_WIGGLE
    /\ priorityOf.storageTeamSize = 2
    /\ readServersLeft = 2
    /\ Cardinality(membersWith("isWiggling")) = 1

\* ---- C26 ---------------------------------------------------------------------------
\* C26: a tracker whose server has a FAILED exclusion is on the path of line 4697 and
\* not in its choose; when it goes on, its server's id is sent on removeFailedServer
\* unless an id was sent before, and the collection is destroyed; dataDistribution
\* goes round its outer loop only when the server that was sent has been removed by
\* the catch block
C26_FailedServerRemovedBeforeRestart ==
    /\ [](Running =>
            \A s \in Servers :
                ssTracker[s].pc = "tracking" => self.excludedServers[s] # "FAILED")
    /\ [][\A s \in Servers :
              (ssTracker[s].pc = "failedDelay"
               /\ last' = [op |-> "FailedServerThrows", server |-> s])
                  => /\ self.excludedServers[s] = "FAILED"
                     /\ removeFailedServer' = IF removeFailedServer = 0 THEN s
                                              ELSE removeFailedServer
                     /\ phase' = "destroyed"
                     /\ \A t \in TeamIds : self'.teamObj[t].tracker # "live"]_vars
    /\ [][(phase = "running" /\ phase' # "running")
              => \E s \in Servers :
                     /\ ssTracker[s].pc = "failedDelay"
                     /\ last' = [op |-> "FailedServerThrows", server |-> s]]_vars
    /\ [][(phase # "restarted" /\ phase' = "restarted")
              => /\ removeFailedServer # 0
                 /\ self.excludedServers[removeFailedServer] = "FAILED"
                 /\ removedBy[removeFailedServer] = "failedServer"]_vars

\* dataDistribution went round its loop after a server with a FAILED exclusion was
\* removed by the catch block
C26_Witness ==
    /\ phase = "restarted"
    /\ last.op = "Restarted"
    /\ removedBy[last.server] = "failedServer"
    /\ self.excludedServers[last.server] = "FAILED"

\* ---- C27 ---------------------------------------------------------------------------
\* the collection's actor collection has an error
collectionFailed == recruitment.error \/ rpcs.error

\* C27 as stated: whatever the requests of the collection's tasks are answered, the
\* collection does not fail
C27_NoRpcFailsCollection == ~collectionFailed

\* the answer of this step fails a request of task with an error that task retries
retriedFailure(task) ==
    /\ rpcs'.replies # rpcs.replies
    /\ rpcs'.last.task = task
    /\ rpcs'.last.result \in {"recruitment_failed", "request_maybe_delivered"}

\* C27, amended: the collection fails in a step only if the step answers an
\* initialize-storage request with an error other than recruitment_failed and
\* request_maybe_delivered; a failed metrics poll, server-list read or exclusion
\* read, and an initialize-storage request failed with one of these two errors, leave
\* the task in its back-off, from where it sends the request again, or, for
\* initializeStorage, returns and triggers the recruiter
C27_OnlyOtherRecruitErrorsFailCollection ==
    /\ [][collectionFailed' /\ ~collectionFailed
              => /\ rpcs'.replies # rpcs.replies
                 /\ rpcs'.last.task = "initializeStorage"
                 /\ rpcs'.last.result
                        \notin {"ok", "recruitment_failed", "request_maybe_delivered"}]_vars
    /\ [][/\ retriedFailure("updateServerMetrics") => rpcs'.metrics = "reset"
          /\ retriedFailure("waitServerListChange") => rpcs'.serverList = "onError"
          /\ retriedFailure("trackExcludedServers") => rpcs'.excluded = "onError"
          /\ retriedFailure("initializeStorage")
                 => \E i \in RecruitIds :
                        /\ recruitment.actors[i].pc = "tryGetReply"
                        /\ recruitment'.actors[i].pc = "delay"]_vars
    /\ [][/\ rpcs.metrics \in {"reset", "endpointFailed"}
                 => rpcs'.metrics \in {"reset", "endpointFailed", "request"}
          /\ rpcs.serverList = "onError" => rpcs'.serverList \in {"onError", "fetching"}
          /\ rpcs.excluded = "onError" => rpcs'.excluded \in {"onError", "reading"}
          /\ \A i \in RecruitIds :
                 recruitment.actors[i].pc = "delay"
                     => \/ recruitment'.actors[i].pc = "delay"
                        \/ /\ recruitment'.actors[i].pc = "done"
                           /\ recruitment'.restartRecruiting]_vars

\* a metrics poll failed and was sent again, and an initializeStorage whose request
\* failed with recruitment_failed has returned, while the collection goes on
C27_Witness ==
    /\ ~collectionFailed
    /\ rpcs.replies = 0
    /\ rpcs.last = [task |-> "updateServerMetrics", result |-> "request_maybe_delivered"]
    /\ rpcs.metrics = "request"
    /\ \E i \in RecruitIds :
           recruitment.actors[i].pc = "done" /\ recruitment.actors[i].newServer = "error"

\* ---- C28 ---------------------------------------------------------------------------
\* the members of the teams of the list of good teams, one set for each place of the list
teamMembers(tc) == [i \in 1 .. Len(tc.teams) |-> Range(tc.teamObj[tc.teams[i]].servers)]

\* C28: no two teams of the list of good teams have the same members, and a pass of
\* the team builder keeps the teams that were in the list and adds none whose members
\* are those of a team of the list
C28_NoTeamTwice ==
    /\ [](\A i, j \in 1 .. Len(self.teams) :
              i # j => teamMembers(self)[i] # teamMembers(self)[j])
    /\ [][last'.op = "BuildTeams"
              => /\ Len(self'.teams) >= Len(self.teams)
                 /\ \A i \in 1 .. Len(self.teams) : teamMembers(self')[i] = teamMembers(self)[i]
                 /\ \A j \in Len(self.teams) + 1 .. Len(self'.teams) :
                        \A i \in 1 .. j - 1 : teamMembers(self')[i] # teamMembers(self')[j]]_vars

\* the team builder has added a team to a list that had teams, while a team that was
\* in the list could have been drawn again
C28_Witness ==
    /\ last.op = "BuildTeams"
    /\ Len(self.teams) >= 3
    /\ \E i \in 1 .. Len(self.teams) : self.teamObj[self.teams[i]].tracker = "live"

\* ---- C29 ---------------------------------------------------------------------------
\* the teams of storageTeamSize healthy servers whose machines differ
validTeams(tc) ==
    {v \in SortedVectors(HealthyServers(tc), storageTeamSize) :
        \A i, j \in 1 .. storageTeamSize : i # j => tc.server_info[v[i]].zone # tc.server_info[v[j]].zone}

\* buildTeams has called addTeamsBestOf, which has come to its end
builtTeams ==
    /\ last.op = "BuildTeams"
    /\ ~self.assertFailed
    /\ Cardinality({self.server_info[s].zone : s \in HealthyServers(self)}) >= storageTeamSize

\* C29: when addTeamsBestOf has stopped while a healthy server has fewer than
\* targetTeamNumPerServer teams, lastBuildTeamsFailed is set and every valid team is
\* in the list of teams
C29_StopsOnlyWhenNoTeamIsLeft ==
    builtTeams /\ notEnoughTeamsForAServer(self)
        => /\ self.lastBuildTeamsFailed
           /\ \A v \in validTeams(self) : teamExists(self, v)

removersStarted == removers.serverTeamRemover.pc # "off"

collectionHealthy(r) == ~r.zeroHealthyTeams /\ ~r.processingUnhealthy

\* waitUntilHealthy, from the head of its loop to its next wait
enterWaitUntilHealthy(r, waitCount) ==
    IF collectionHealthy(r) THEN [pc |-> "stallCheck", waitCount |-> waitCount]
    ELSE [pc |-> "stalled", waitCount |-> waitCount]

\* waitUntilHealthy after delay(DD_STALL_CHECK_DELAY): "returned" once the collection
\* is healthy and no second check is asked for or the check before was healthy too
afterStallCheck(r, a, extraDelay) ==
    IF collectionHealthy(r)
    THEN IF ~extraDelay \/ a.waitCount >= 1
         THEN [pc |-> "returned", waitCount |-> a.waitCount]
         ELSE [pc |-> "extraDelay", waitCount |-> a.waitCount]
    ELSE enterWaitUntilHealthy(r, a.waitCount)

\* TCServerInfo::teams.size() and TCMachineInfo::machineTeams.size()
numTeamsOf(teams, s) == Cardinality({team \in teams : s \in team})

removerTarget == (REMOVER_TEAMS_PER_SERVER * (storageTeamSize + 1)) \div 2

\* the representative team number of a team: the least number of teams of a member
representNumTeams(teams, team) ==
    CHOOSE n \in 0 .. Cardinality(teams) :
        /\ \E s \in team : numTeamsOf(teams, s) = n
        /\ \A s \in team : numTeamsOf(teams, s) >= n

\* DDTeamCollection::getServerTeamWithMostProcessTeams and
\* getMachineTeamWithMostMachineTeams: the teams one of which is found, whichever
\* comes first in the vector among those of the largest representative number
teamsAtOrAboveTarget(teams) ==
    {team \in teams : representNumTeams(teams, team) >= removerTarget}

teamsAboveTarget(teams) ==
    {team \in teams : representNumTeams(teams, team) > removerTarget}

getAnyTeam(teams) == teams

getTeamWithMostTeams(teams) ==
    {team \in teamsAboveTarget(teams) :
        \A other \in teamsAboveTarget(teams) :
            representNumTeams(teams, other) <= representNumTeams(teams, team)}

\* DDTeamCollection::notEnoughTeamsForAServer
removerNotEnoughTeamsForAServer(r) ==
    \E s \in RemoverServers \ r.failed : numTeamsOf(r.teams, s) < removerTarget

\* the remover starts removeBadTeams if the one before has returned;
\* initialFailureReactionDelay is over when the removers run
startBadTeamRemover(r) ==
    IF r.badTeamRemover.pc = "off"
    THEN [r EXCEPT !.badTeamRemover = enterWaitUntilHealthy(r, 0)]
    ELSE r

\* one removal: the teams go to the bad teams and a build is asked for; last is
\* history, who removed a team last and what the two health flags were then
teamsRemoved(r, by, serverTeams) ==
    startBadTeamRemover(
        [r EXCEPT !.teams = @ \ serverTeams,
                  !.badTeams = @ \cup serverTeams,
                  !.doBuildTeams = TRUE,
                  !.last = [by |-> by,
                            zeroHealthyTeams |-> r.zeroHealthyTeams,
                            processingUnhealthy |-> r.processingUnhealthy]])

\* serverTeamRemover from wait(self->badTeamRemover) to the delay at the head of its
\* loop: the records it may leave
serverTeamRemoverBody(r) ==
    LET desiredServerTeams == REMOVER_TEAMS_PER_SERVER * NumRemoverServers
        found == getTeamWithMostTeams(r.teams)
        back(q) == [q EXCEPT !.serverTeamRemover = [pc |-> "delay", waitCount |-> 0]]
    IN IF Cardinality(r.teams) > desiredServerTeams /\ found # {}
       THEN {back(teamsRemoved(r, "serverTeamRemover", {st})) : st \in found}
       ELSE {back(r)}

\* machineTeamRemover from wait(self->badTeamRemover) to the delay at the head of
\* its loop
machineTeamRemoverBody(r) ==
    LET healthyMachineCount == Cardinality(RemoverServers \ r.failed)
        desiredMachineTeams == REMOVER_TEAMS_PER_SERVER * healthyMachineCount
        found == getTeamWithMostTeams(r.machineTeams)
        back(q) == [q EXCEPT !.machineTeamRemover = [pc |-> "delay", waitCount |-> 0]]
        without(q, mt) == [q EXCEPT !.machineTeams = @ \ {mt}]
    IN IF healthyMachineCount # NumRemoverServers THEN {back(r)}
       ELSE IF Cardinality(r.machineTeams) > desiredMachineTeams /\ found # {}
            THEN {back(without(teamsRemoved(r, "machineTeamRemover", r.teams \cap {mt}),
                                mt)) : mt \in found}
            ELSE {back(r)}

removerBody(r, who) ==
    IF who = "serverTeamRemover" THEN serverTeamRemoverBody(r)
    ELSE machineTeamRemoverBody(r)

RemoverNames == {"serverTeamRemover", "machineTeamRemover"}

\* removeBadTeams returns: the bad teams are cleared and the removers that wait for it
\* go on at once, one after the other, in the order they began to wait
resumeRemover(r, who) ==
    IF r[who].pc = "badTeamRemover" THEN removerBody(r, who) ELSE {r}

badTeamRemoverReturned(r) ==
    LET cleared == [r EXCEPT !.badTeams = {}, !.badTeamRemover = NoRemover]
    IN UNION {UNION {resumeRemover(q, second) : q \in resumeRemover(cleared, first)} :
                 <<first, second>> \in {<<"serverTeamRemover", "machineTeamRemover">>,
                                        <<"machineTeamRemover", "serverTeamRemover">>}}

\* dataDistributionTeamCollection starts the three actors once the teams of the
\* initial data distribution are there
TeamCollectionReady(teams) ==
    /\ ~removersStarted
    /\ removers' = [removers EXCEPT
           !.teams = teams,
           !.machineTeams = teams,
           !.badTeamRemover = enterWaitUntilHealthy(removers, 0),
           !.serverTeamRemover = [pc |-> "delay", waitCount |-> 0],
           !.machineTeamRemover = [pc |-> "delay", waitCount |-> 0]]
    /\ UNCHANGED exceptRemovers

\* the delay at the head of a remover's loop is over
RemoverDelayOver(who) ==
    /\ removers[who].pc = "delay"
    /\ removers' = [removers EXCEPT ![who] = enterWaitUntilHealthy(removers, 0)]
    /\ UNCHANGED exceptRemovers

\* waitUntilHealthy: zeroHealthyTeams or processingUnhealthy changed and the
\* collection is healthy
RemoverWoken(who) ==
    /\ removers[who].pc = "stalled"
    /\ collectionHealthy(removers)
    /\ removers' = [removers EXCEPT ![who] = [pc |-> "stallCheck", waitCount |-> 0]]
    /\ UNCHANGED exceptRemovers

\* waitUntilHealthy of a remover: delay(DD_STALL_CHECK_DELAY) is over; when it
\* returns and removeBadTeams is not running, the remover goes on at once
RemoverStallCheckOver(who) ==
    /\ removers[who].pc = "stallCheck"
    /\ LET a == afterStallCheck(removers, removers[who], TRUE)
       IN IF a.pc # "returned" THEN removers' = [removers EXCEPT ![who] = a]
          ELSE IF removers.badTeamRemover.pc # "off"
               THEN removers' = [removers EXCEPT ![who] = [pc |-> "badTeamRemover",
                                                          waitCount |-> 0]]
               ELSE removers' \in removerBody(removers, who)
    /\ UNCHANGED exceptRemovers

\* waitUntilHealthy of a remover: delay(extraDelay) is over
RemoverExtraDelayOver(who) ==
    /\ removers[who].pc = "extraDelay"
    /\ removers' = [removers EXCEPT
           ![who] = enterWaitUntilHealthy(removers, removers[who].waitCount + 1)]
    /\ UNCHANGED exceptRemovers

\* removeBadTeams in its waitUntilHealthy
BadTeamRemoverWoken ==
    /\ removers.badTeamRemover.pc = "stalled"
    /\ collectionHealthy(removers)
    /\ removers' = [removers EXCEPT !.badTeamRemover = [pc |-> "stallCheck",
                                                       waitCount |-> 0]]
    /\ UNCHANGED exceptRemovers

BadTeamRemoverStallCheckOver ==
    /\ removers.badTeamRemover.pc = "stallCheck"
    /\ LET a == afterStallCheck(removers, removers.badTeamRemover, FALSE)
       IN IF a.pc # "returned" THEN removers' = [removers EXCEPT !.badTeamRemover = a]
          ELSE IF ~removers.addSubsetComplete
               THEN removers' = [removers EXCEPT !.badTeamRemover = [pc |-> "addSubset",
                                                                    waitCount |-> 0]]
               ELSE removers' \in badTeamRemoverReturned(removers)
    /\ UNCHANGED exceptRemovers

\* interruptableBuildTeams sends addSubsetComplete after its first pass
AddSubsetCompleted ==
    /\ removersStarted
    /\ ~removers.addSubsetComplete
    /\ LET r == [removers EXCEPT !.addSubsetComplete = TRUE]
       IN IF r.badTeamRemover.pc = "addSubset"
          THEN removers' \in badTeamRemoverReturned(r)
          ELSE removers' = r
    /\ UNCHANGED exceptRemovers

\* a team tracker sets zeroHealthyTeams, the relocation queue processingUnhealthy
RemoverHealthChanged(zeroHealthyTeams, processingUnhealthy) ==
    /\ removersStarted
    /\ removers.budget > 0
    /\ <<zeroHealthyTeams, processingUnhealthy>> #
           <<removers.zeroHealthyTeams, removers.processingUnhealthy>>
    /\ removers' = [removers EXCEPT !.zeroHealthyTeams = zeroHealthyTeams,
                                    !.processingUnhealthy = processingUnhealthy,
                                    !.budget = @ - 1]
    /\ UNCHANGED exceptRemovers

\* a storage server fails or comes back, and its machine with it; the server
\* that was added last is the one that does
RemoverServerStatusChanged(s) ==
    /\ removersStarted
    /\ removers.budget > 0
    /\ removers' = [removers EXCEPT
           !.failed = IF s \in @ THEN @ \ {s} ELSE @ \cup {s},
           !.budget = @ - 1]
    /\ UNCHANGED exceptRemovers

\* the teams the collection may have been built with: every team of the servers it
\* had first, and some teams of the server that was added last
teamsOfSize(servers) == {team \in SUBSET servers : Cardinality(team) = storageTeamSize}

BuiltTeams ==
    {teamsOfSize(RemoverServers \ {NumRemoverServers}) \cup teamsOfLast :
        teamsOfLast \in SUBSET {{s, NumRemoverServers} : s \in 1 .. MaxTeamsOfLast} \ {{}}}

RemoverNext ==
    \/ \E teams \in BuiltTeams : TeamCollectionReady(teams)
    \/ \E who \in RemoverNames : RemoverDelayOver(who)
    \/ \E who \in RemoverNames : RemoverWoken(who)
    \/ \E who \in RemoverNames : RemoverStallCheckOver(who)
    \/ \E who \in RemoverNames : RemoverExtraDelayOver(who)
    \/ BadTeamRemoverWoken
    \/ BadTeamRemoverStallCheckOver
    \/ AddSubsetCompleted
    \/ \E zeroHealthyTeams \in BOOLEAN, processingUnhealthy \in BOOLEAN :
           RemoverHealthChanged(zeroHealthyTeams, processingUnhealthy)
    \/ \E s \in {NumRemoverServers} : RemoverServerStatusChanged(s)

RemoverSpec == Init /\ [][RemoverNext]_vars

\* a state that no step leaves out of reach
RemoverTypeOK == removers.budget >= 0

\* C32: whenever one of the two removers has removed a team, zeroHealthyTeams was
\* false and no unhealthy relocation was being processed at that moment
C32_HealthyWhenTeamRemoved ==
    removers.last.by # "none"
        => ~removers.last.zeroHealthyTeams /\ ~removers.last.processingUnhealthy

\* a step of serverTeamRemover alone that removes a team: one server team goes and
\* no machine team does
serverTeamRemoved ==
    /\ removers'.teams \subseteq removers.teams
    /\ Cardinality(removers.teams \ removers'.teams) = 1
    /\ removers'.machineTeams = removers.machineTeams

\* C33: when serverTeamRemover removes a team, every healthy member of that team is
\* left with at least targetTeamNumPerServer teams, and if no healthy server was
\* short of teams before, none is after
C33_RemovalKeepsTargetPerServer ==
    [][serverTeamRemoved
        => /\ \A team \in removers.teams \ removers'.teams :
                  \A s \in team \ removers'.failed :
                      numTeamsOf(removers'.teams, s) >= removerTarget
           /\ (~removerNotEnoughTeamsForAServer(removers)
                  => ~removerNotEnoughTeamsForAServer(removers'))]_vars

\* serverTeamRemover has brought the teams down to the desired number, and a healthy
\* server that has just targetTeamNumPerServer teams has kept them
C33_Witness ==
    /\ removers.last.by = "serverTeamRemover"
    /\ Cardinality(removers.teams) = REMOVER_TEAMS_PER_SERVER * NumRemoverServers
    /\ \E s \in RemoverServers \ removers.failed :
           numTeamsOf(removers.teams, s) = removerTarget
    /\ ~removerNotEnoughTeamsForAServer(removers)

\* ---- the servers of a process ---------------------------------------------------
\* pid2server_info holds, for each process ID, the vector of the servers on that
\* process; an ID without a vector reads as the empty vector
RECURSIVE swapErase(_, _, _)
\* the loop that erases a server from a vector: the last element is moved into the
\* place of each match, and that place is looked at again
swapErase(vec, i, s) ==
    IF i > Len(vec) THEN vec
    ELSE IF vec[i] = s
         THEN swapErase(SubSeq([vec EXCEPT ![i] = vec[Len(vec)]], 1, Len(vec) - 1), i, s)
         ELSE swapErase(vec, i + 1, s)

\* DDTeamCollection::addServer: a server that is not a TSS goes into the vector of
\* its process
addServerToPid(p, s, pid, isTss) ==
    [p EXCEPT !.server[s] = [state |-> "registered", isTss |-> isTss, processId |-> pid],
              !.pid2server_info[pid] = IF isTss THEN @ ELSE Append(@, s)]

\* storageServerTracker, interfaceChanged, as it would be if the vector of the
\* process ID the server had before were the one that is cleaned
pidChangedOldErased(p, s, pid) ==
    IF pid # p.server[s].processId /\ ~p.server[s].isTss
    THEN [p EXCEPT !.server[s].processId = pid,
                   !.pid2server_info[pid] = Append(@, s),
                   !.pid2server_info[p.server[s].processId] = swapErase(@, 1, s)]
    ELSE [p EXCEPT !.server[s].processId = pid]

\* storageServerTracker, interfaceChanged: lastKnownInterface is assigned first, so
\* the vector that is read as the old one is the vector of the new process ID
pidChanged(p, s, pid) ==
    LET processIdChanged == p.server[s].processId # pid
        assigned == [p EXCEPT !.server[s].processId = pid]
        pushed == [assigned EXCEPT !.pid2server_info[pid] = Append(@, s)]
    IN IF processIdChanged /\ ~p.server[s].isTss
       THEN [pushed EXCEPT !.pid2server_info[pushed.server[s].processId] =
                               swapErase(@, 1, s)]
       ELSE assigned

\* DDTeamCollection::removeServer and removeTSS
removeServerFromPid(p, s) ==
    [p EXCEPT !.server[s].state = "removed",
              !.pid2server_info[p.server[s].processId] =
                  IF p.server[s].isTss THEN @ ELSE swapErase(@, 1, s)]

ProcessAddServer(s, pid, isTss) ==
    /\ processes.server[s].state = "new"
    /\ processes' = addServerToPid(processes, s, pid, isTss)
    /\ UNCHANGED exceptProcesses

ProcessInterfaceChanged(s, pid) ==
    /\ processes.server[s].state = "registered"
    /\ processes' = pidChanged(processes, s, pid)
    /\ UNCHANGED exceptProcesses

ProcessRemoveServer(s) ==
    /\ processes.server[s].state = "registered"
    /\ processes' = removeServerFromPid(processes, s)
    /\ UNCHANGED exceptProcesses

\* excludeStorageServersForWiggle: the servers that the wiggler marks for a process
ProcessWiggled(pid) ==
    /\ processes' = [processes EXCEPT
           !.wigglingPid = pid,
           !.marked = {processes.pid2server_info[pid][i] :
                          i \in 1 .. Len(processes.pid2server_info[pid])}]
    /\ UNCHANGED exceptProcesses

ProcessNext ==
    \/ \E s \in ProcessServers, pid \in ProcessIds, isTss \in BOOLEAN :
           ProcessAddServer(s, pid, isTss)
    \/ \E s \in ProcessServers, pid \in ProcessIds : ProcessInterfaceChanged(s, pid)
    \/ \E s \in ProcessServers : ProcessRemoveServer(s)
    \/ \E pid \in ProcessIds : ProcessWiggled(pid)

ProcessSpec == Init /\ [][ProcessNext]_vars

\* the registered servers that are no TSS and whose process ID is pid
serversOfProcess(p, pid) ==
    {s \in ProcessServers : /\ p.server[s].state = "registered"
                            /\ ~p.server[s].isTss
                            /\ p.server[s].processId = pid}

\* C34: pid2server_info maps each process ID to exactly the registered non-TSS
\* servers whose process ID it is, each of them once
C34_PidMapExact ==
    \A pid \in ProcessIds :
        /\ {processes.pid2server_info[pid][i] :
               i \in 1 .. Len(processes.pid2server_info[pid])}
               = serversOfProcess(processes, pid)
        /\ Len(processes.pid2server_info[pid])
               = Cardinality(serversOfProcess(processes, pid))

\* ---- waitServerListChange and initializeStorage on one server ID ------------------
\* The worker that is asked to initialize a storage server writes the server into
\* the server list of the database before it answers; the answer may get lost
\* (request_maybe_delivered).  Servers are not removed here.
RECURSIVE addListed(_, _)

\* DDTeamCollection::addServer: one more record and tracker for the ID; last is
\* history, who added a record last and what was known of the ID then
registryAddServer(g, id, by) ==
    [g EXCEPT !.records[id] = @ + 1,
              !.last = [by |-> by, id |-> id, recruiting |-> id \in g.recruitingIds,
                        registered |-> g.records[id] > 0]]

addAnyListed(g, id) == TRUE

\* waitServerListChange: the server of the list that is added
shouldAddListed(g, id) == g.records[id] = 0 /\ id \notin g.recruitingIds

\* waitServerListChange, the loop over its results
addListed(g, ids) ==
    IF ids = {} THEN g
    ELSE LET id == CHOOSE i \in ids : \A j \in ids : i <= j
         IN addListed(IF shouldAddListed(g, id) /\ g.records[id] < 2
                      THEN registryAddServer(g, id, "waitServerListChange") ELSE g,
                      ids \ {id})

\* initializeStorage inserts its interface ID and sends its request
RegistryRecruitStarted(id) ==
    /\ registry.task[id] = "none"
    /\ id \notin registry.serverList
    /\ registry' = [registry EXCEPT !.recruitingIds = @ \cup {id},
                                    !.task[id] = "requested"]
    /\ UNCHANGED exceptRegistry

\* the worker has initialized the storage server, which is in the server list now
RegistryWorkerInitialized(id) ==
    /\ registry.task[id] = "requested"
    /\ registry' = [registry EXCEPT !.serverList = @ \cup {id}, !.task[id] = "initialized"]
    /\ UNCHANGED exceptRegistry

\* initializeStorage gets the answer of the worker, or its loss, up to its return
RegistryRecruitReplied(id, present) ==
    /\ registry.task[id] \in {"requested", "initialized"}
    /\ present => registry.task[id] = "initialized"
    /\ LET erased == [registry EXCEPT !.recruitingIds = @ \ {id}, !.task[id] = "done"]
       IN registry' = IF present /\ erased.records[id] = 0
                      THEN registryAddServer(erased, id, "initializeStorage")
                      ELSE erased
    /\ UNCHANGED exceptRegistry

\* waitServerListChange: checkSignal fires and the read of the list is sent
RegistryCheckSignalFired ==
    /\ ~registry.fetching
    /\ registry.reads < MaxListReads
    /\ registry' = [registry EXCEPT !.fetching = TRUE, !.reads = @ + 1,
                                    !.results = [read |-> FALSE, ids |-> {}]]
    /\ UNCHANGED exceptRegistry

\* getServerListAndProcessClasses reads the list at its read version
RegistryListRead ==
    /\ registry.fetching
    /\ ~registry.results.read
    /\ registry' = [registry EXCEPT !.results = [read |-> TRUE, ids |-> registry.serverList]]
    /\ UNCHANGED exceptRegistry

\* waitServerListChange gets the results
RegistryListDelivered ==
    /\ registry.fetching
    /\ registry.results.read
    /\ registry' = [addListed(registry, registry.results.ids) EXCEPT
                        !.fetching = FALSE,
                        !.results = [read |-> FALSE, ids |-> {}]]
    /\ UNCHANGED exceptRegistry

RegistryNext ==
    \/ \E id \in ListedServers : RegistryRecruitStarted(id)
    \/ \E id \in ListedServers : RegistryWorkerInitialized(id)
    \/ \E id \in ListedServers, present \in BOOLEAN : RegistryRecruitReplied(id, present)
    \/ RegistryCheckSignalFired
    \/ RegistryListRead
    \/ RegistryListDelivered

RegistrySpec == Init /\ [][RegistryNext]_vars

\* C36: a server ID has at most one record and one tracker; the record added last
\* was added for an ID that had none, and not by waitServerListChange while the ID
\* was in recruitingIds
C36_OneRecordPerServer ==
    /\ \A id \in ListedServers : registry.records[id] <= 1
    /\ registry.last.by # "none" => ~registry.last.registered
    /\ registry.last.by = "waitServerListChange" => ~registry.last.recruiting

\* a server was read from the list while its recruitment was in flight, and has its
\* one record from the recruiter
C36_Witness ==
    \E id \in ListedServers :
        /\ id \in registry.results.ids
        /\ registry.records[id] = 1
        /\ registry.task[id] = "done"
        /\ registry.last = [by |-> "initializeStorage", id |-> id, recruiting |-> FALSE,
                            registered |-> FALSE]

\* ---- checkBuildTeams ----------------------------------------------------------------
\* getTeam and monitorHealthyTeams call checkBuildTeams, which starts
\* interruptableBuildTeams; an actor that waits for a future goes on at once when
\* the future becomes ready, in the order in which the actors began to wait, which
\* is taken to be the order of their numbers
RECURSIVE resumeCallers(_, _, _)

\* interruptableBuildTeams up to its first wait: addSubsetOfEmergencyTeams once, then
\* a pass of buildTeams, which ends in a delay
interruptableBuildTeams(b) ==
    LET id == b.started + 1
    IN [b EXCEPT !.started = id,
                 !.teamBuilder = id,
                 !.builder[id] = IF b.addSubsetComplete THEN "buildTeams" ELSE "addSubset",
                 !.passes = IF b.addSubsetComplete THEN @ + 1 ELSE @]

\* checkBuildTeams after its loop
startOrReturn(b, c) ==
    IF b.doBuildTeams /\ b.readyToStart /\ b.started < MaxBuilders
    THEN [interruptableBuildTeams([b EXCEPT !.doBuildTeams = FALSE]) EXCEPT
              !.caller[c] = [pc |-> "waitOwn", waitsFor |-> b.started + 1]]
    ELSE [b EXCEPT !.caller[c] = [pc |-> "idle", waitsFor |-> 0]]

\* a variant of checkBuildTeamsLoop that does not wait for teamBuilder
checkBuildTeamsAtOnce(b, c) ==
    IF b.doBuildTeams /\ b.readyToStart /\ b.started < MaxBuilders
    THEN [interruptableBuildTeams([b EXCEPT !.doBuildTeams = FALSE]) EXCEPT
              !.caller[c] = [pc |-> "waitOwn", waitsFor |-> b.started + 1]]
    ELSE [b EXCEPT !.caller[c] = [pc |-> "idle", waitsFor |-> 0]]

\* checkBuildTeams after wait(checkTeamDelay): it waits as long as teamBuilder is not
\* ready
checkBuildTeamsLoop(b, c) ==
    IF b.teamBuilder # 0
    THEN [b EXCEPT !.caller[c] = [pc |-> "waitBuilder", waitsFor |-> b.teamBuilder]]
    ELSE startOrReturn(b, c)

checkBuildTeams(b, c) ==
    IF b.checkTeamDelay THEN checkBuildTeamsLoop(b, c)
    ELSE [b EXCEPT !.caller[c] = [pc |-> "checkTeamDelay", waitsFor |-> 0]]

\* the callers from c on that wait for the future that became ready go on
resumeCallers(b, c, id) ==
    IF c > NumBuildCallers THEN b
    ELSE IF b.caller[c].waitsFor = id /\ b.caller[c].pc = "waitBuilder"
         THEN resumeCallers(checkBuildTeamsLoop(b, c), c + 1, id)
         ELSE IF b.caller[c].waitsFor = id /\ b.caller[c].pc = "waitOwn"
              THEN resumeCallers([b EXCEPT !.caller[c] = [pc |-> "idle", waitsFor |-> 0]],
                                 c + 1, id)
              ELSE resumeCallers(b, c + 1, id)

\* the number of buildTeams passes in progress
buildsInProgress(b) == Cardinality({id \in Builders : b.builder[id] # "none"})

\* getTeam, or monitorHealthyTeams after it has set doBuildTeams, calls
\* checkBuildTeams
CheckBuildTeamsCalled(c, fromMonitor) ==
    /\ building.caller[c].pc = "idle"
    /\ building.started < MaxBuilders
    /\ building' = checkBuildTeams(
                       [building EXCEPT !.doBuildTeams = @ \/ fromMonitor], c)
    /\ UNCHANGED exceptBuilding

\* checkTeamDelay is over: the callers that wait for it go on
CheckTeamDelayOver ==
    /\ ~building.checkTeamDelay
    /\ LET RECURSIVE go(_, _)
           go(b, c) == IF c > NumBuildCallers THEN b
                       ELSE IF b.caller[c].pc = "checkTeamDelay"
                            THEN go(checkBuildTeamsLoop(b, c), c + 1)
                            ELSE go(b, c + 1)
       IN building' = go([building EXCEPT !.checkTeamDelay = TRUE], 1)
    /\ UNCHANGED exceptBuilding

\* readyToStart is set when the initial teams are there
BuildReadyToStart ==
    /\ ~building.readyToStart
    /\ building' = [building EXCEPT !.readyToStart = TRUE]
    /\ UNCHANGED exceptBuilding

\* interruptableBuildTeams: addSubsetOfEmergencyTeams is done, the first pass of
\* buildTeams runs up to its delay
AddSubsetOfEmergencyTeamsDone(id) ==
    /\ building.builder[id] = "addSubset"
    /\ building' = [building EXCEPT !.builder[id] = "buildTeams",
                                    !.addSubsetComplete = TRUE,
                                    !.passes = @ + 1]
    /\ UNCHANGED exceptBuilding

\* interruptableBuildTeams: buildTeams returns, and with it the actor
BuildTeamsReturned(id) ==
    /\ building.builder[id] = "buildTeams"
    /\ building' = resumeCallers(
                       [building EXCEPT !.builder[id] = "none",
                                        !.teamBuilder = IF @ = id THEN 0 ELSE @],
                       1, id)
    /\ UNCHANGED exceptBuilding

\* restartTeamBuilder.trigger: a pass that waits in its delay is dropped and
\* buildTeams runs anew
RestartTeamBuilder ==
    /\ building.budget > 0
    /\ \E id \in Builders : building.builder[id] = "buildTeams"
    /\ building' = [building EXCEPT !.passes = @ + 1, !.budget = @ - 1]
    /\ UNCHANGED exceptBuilding

\* a server is added, removed or changes: teams are to be built
DoBuildTeamsSet ==
    /\ building.budget > 0
    /\ ~building.doBuildTeams
    /\ building' = [building EXCEPT !.doBuildTeams = TRUE, !.budget = @ - 1]
    /\ UNCHANGED exceptBuilding

BuildingNext ==
    \/ \E c \in BuildCallers, fromMonitor \in BOOLEAN : CheckBuildTeamsCalled(c, fromMonitor)
    \/ CheckTeamDelayOver
    \/ BuildReadyToStart
    \/ \E id \in Builders : AddSubsetOfEmergencyTeamsDone(id)
    \/ \E id \in Builders : BuildTeamsReturned(id)
    \/ RestartTeamBuilder
    \/ DoBuildTeamsSet

BuildingSpec == Init /\ [][BuildingNext]_vars

\* C37: at most one interruptableBuildTeams actor, and so at most one pass of
\* buildTeams, is in progress at any time, and it is the one teamBuilder holds
C37_OneBuildAtATime ==
    /\ buildsInProgress(building) <= 1
    /\ \A id \in Builders : building.builder[id] # "none" => building.teamBuilder = id

\* a build is in progress while teams are to be built again and two callers wait
\* for the builder
C37_Witness ==
    /\ buildsInProgress(building) = 1
    /\ building.doBuildTeams
    /\ Cardinality({c \in BuildCallers : building.caller[c].pc = "waitBuilder"}) >= 2

\* ---- storageServerFailureTracker and the healthy zone --------------------------------
\* an actor that waits for a change of healthyZone or of server_status goes on
\* within the call of set; teamTracker then yields before it looks at the servers
RECURSIVE healthyZoneChanged(_, _, _)

\* AsyncMap::set of server_status: the team tracker, which waits for a change of
\* each of its servers, is woken when the value differs
setServerStatus(z, s, status) ==
    [z EXCEPT !.server_status[s] = status,
              !.teamTracker = IF status # z.server_status[s] /\ @ = "waiting"
                              THEN "yield" ELSE @]

\* storageServerFailureTracker from the top of its loop to the choose
failureTrackerLoopTop(z, s) ==
    LET inHealthyZone == /\ z.healthyZone # noZone
                         /\ \/ zoneIdOf(s) = z.healthyZone
                            \/ z.healthyZone = ignoreSSFailuresZoneString
        status == IF inHealthyZone THEN [z.status[s] EXCEPT !.isFailed = FALSE]
                  ELSE z.status[s]
    IN setServerStatus([z EXCEPT !.inHealthyZone[s] = inHealthyZone,
                                 !.status[s] = status], s, status)

\* the failure trackers from s on, but not the one of `but`, go on after a change
\* of healthyZone
healthyZoneChanged(z, s, but) ==
    IF s > NumZoneServers THEN z
    ELSE IF z.tracker[s] = "tracking" /\ s # but
         THEN healthyZoneChanged(failureTrackerLoopTop(z, s), s + 1, but)
         ELSE healthyZoneChanged(z, s + 1, but)

\* AsyncVar::set of healthyZone
setHealthyZone(z, value, but) ==
    IF z.healthyZone = value THEN z
    ELSE healthyZoneChanged([z EXCEPT !.healthyZone = value], 1, but)

\* storageServerFailureTracker: the body of when(wait(healthChanged))
healthChangedBody(z, s) ==
    LET failed == ~z.status[s].isFailed
        flipped == [z EXCEPT !.status[s].isFailed = failed]
    IN IF failed /\ z.healthyZone # noZone
       THEN IF z.healthyZone = ignoreSSFailuresZoneString
            THEN [flipped EXCEPT !.status[s].isFailed = FALSE]
            ELSE IF z.clearHealthyZoneFuture = "ready"
                 THEN setHealthyZone([flipped EXCEPT !.clearHealthyZoneFuture = "clearing"],
                                     noZone, s)
                 ELSE flipped
       ELSE flipped

\* teamTracker: the servers of the team that are not failed
serversLeftOf(z) == Cardinality({s \in ZoneServers : ~z.server_status[s].isFailed})

\* the failure monitor reports the server down, or up again
FailureMonitorChanged(s) ==
    /\ zoneTracking.budget > 0
    /\ zoneTracking.tracker[s] = "tracking"
    /\ zoneTracking' = [zoneTracking EXCEPT !.down[s] = ~@, !.budget = @ - 1]
    /\ UNCHANGED exceptZoneTracking

\* storageServerFailureTracker: healthChanged fires, and the loop goes round
ZoneHealthChanged(s) ==
    /\ zoneTracking.tracker[s] = "tracking"
    /\ \/ zoneTracking.status[s].isFailed /\ ~zoneTracking.down[s]
       \/ /\ ~zoneTracking.status[s].isFailed
          /\ ~zoneTracking.inHealthyZone[s]
          /\ zoneTracking.down[s]
    /\ zoneTracking' = failureTrackerLoopTop(healthChangedBody(zoneTracking, s), s)
    /\ UNCHANGED exceptZoneTracking

\* clearHealthyZone has committed
HealthyZoneCleared ==
    /\ zoneTracking.clearHealthyZoneFuture = "clearing"
    /\ zoneTracking' = [zoneTracking EXCEPT !.clearHealthyZoneFuture = "ready"]
    /\ UNCHANGED exceptZoneTracking

\* waitHealthyZoneChange reads a new value of the healthy zone key
HealthyZoneKeyRead(value) ==
    /\ zoneTracking.budget > 0
    /\ value # zoneTracking.healthyZone
    /\ zoneTracking' = [setHealthyZone(zoneTracking, value, 0) EXCEPT !.budget = @ - 1]
    /\ UNCHANGED exceptZoneTracking

\* storageServerTracker: the exclusion of the server's address changes; the status
\* is made anew and the failure tracker starts again
ZoneServerExcluded(s) ==
    /\ zoneTracking.budget > 0
    /\ zoneTracking.tracker[s] = "tracking"
    /\ zoneTracking' = failureTrackerLoopTop(
                           [zoneTracking EXCEPT !.status[s].isUndesired = ~@,
                                                !.budget = @ - 1], s)
    /\ UNCHANGED exceptZoneTracking

\* storageServerFailureTracker: waitForAllDataRemoved returns for an unhealthy
\* server; the tracker returns and storageServerTracker begins removeStorageServer
ZoneServerDataRemoved(s) ==
    /\ zoneTracking.tracker[s] = "tracking"
    /\ zoneTracking.status[s].isFailed \/ zoneTracking.status[s].isUndesired
    /\ zoneTracking' = [zoneTracking EXCEPT !.tracker[s] = "removing"]
    /\ UNCHANGED exceptZoneTracking

\* removeStorageServer is done and the collection removes the server, its teams
\* and their trackers
ZoneServerRemoved(s) ==
    /\ zoneTracking.tracker[s] = "removing"
    /\ zoneTracking' = [zoneTracking EXCEPT !.tracker[s] = "removed",
                                            !.teamTracker = "cancelled"]
    /\ UNCHANGED exceptZoneTracking

\* zeroHealthyTeams changes through another team
ZoneZeroHealthyTeamsChanged ==
    /\ zoneTracking.budget > 0
    /\ zoneTracking.teamTracker = "waiting"
    /\ zoneTracking' = [zoneTracking EXCEPT !.teamTracker = "yield", !.budget = @ - 1]
    /\ UNCHANGED exceptZoneTracking

\* teamTracker: after the yield it counts the servers left and asserts
ZoneTeamTrackerEvaluates ==
    /\ zoneTracking.teamTracker = "yield"
    /\ zoneTracking' =
           [zoneTracking EXCEPT
                !.teamTracker = "waiting",
                !.asserted = IF zoneTracking.healthyZone = ignoreSSFailuresZoneString
                             THEN IF serversLeftOf(zoneTracking) = NumZoneServers
                                  THEN "held" ELSE "failed"
                             ELSE @]
    /\ UNCHANGED exceptZoneTracking

ZoneNext ==
    \/ \E s \in ZoneServers : FailureMonitorChanged(s)
    \/ \E s \in ZoneServers : ZoneHealthChanged(s)
    \/ HealthyZoneCleared
    \/ \E value \in HealthyZoneValues : HealthyZoneKeyRead(value)
    \/ \E s \in ZoneServers : ZoneServerExcluded(s)
    \/ \E s \in ZoneServers : ZoneServerDataRemoved(s)
    \/ \E s \in ZoneServers : ZoneServerRemoved(s)
    \/ ZoneZeroHealthyTeamsChanged
    \/ ZoneTeamTrackerEvaluates

ZoneSpec == Init /\ [][ZoneNext]_vars

C38_HeldWhileAllTracked ==
    zoneTracking.asserted = "failed" =>
        \E s \in ZoneServers : zoneTracking.tracker[s] # "tracking"

\* the assertion was made and held although a server is reported down
C38_Witness ==
    /\ zoneTracking.asserted = "held"
    /\ \E s \in ZoneServers : zoneTracking.down[s]

\* ---- lagging_zones --------------------------------------------------------------------
laggingZonesSize(l) == Cardinality({z \in LagZones : l.lagging_zones[z] # 0})

\* DDTeamCollection::addLaggingStorageServer
addLaggingStorageServer(l, zoneId) ==
    LET added == [l EXCEPT !.lagging_zones[zoneId] = @ + 1]
    IN IF laggingZonesSize(added) > Max(1, storageTeamSize - 1)
          /\ ~added.disableFailingLaggingServers
       THEN [added EXCEPT !.disableFailingLaggingServers = TRUE]
       ELSE added

\* DDTeamCollection::removeLaggingStorageServer; a failed assertion ends the program
removeLaggingStorageServer(l, zoneId) ==
    IF l.lagging_zones[zoneId] = 0 THEN [l EXCEPT !.assertFailed = TRUE]
    ELSE LET removed == [l EXCEPT !.lagging_zones[zoneId] = @ - 1]
         IN IF laggingZonesSize(removed) <= Max(1, storageTeamSize - 1)
               /\ removed.disableFailingLaggingServers
            THEN [removed EXCEPT !.disableFailingLaggingServers = FALSE]
            ELSE removed

\* updateServerMetrics after the reply: lag is "behind" for a stuck server or a
\* version lag above DD_SS_FAILURE_VERSIONLAG, "normal" for one below
\* DD_SS_ALLOWED_VERSIONLAG, "between" otherwise
updateServerMetrics(l, s, lag) ==
    LET server == l.server[s]
    IN IF lag = "behind" /\ ~server.ssVersionTooFarBehind
       THEN addLaggingStorageServer([l EXCEPT !.server[s].ssVersionTooFarBehind = TRUE],
                                    server.zoneId)
       ELSE IF lag = "normal" /\ server.ssVersionTooFarBehind
            THEN removeLaggingStorageServer(
                     [l EXCEPT !.server[s].ssVersionTooFarBehind = FALSE], server.zoneId)
            ELSE l

\* TCServerInfo::~TCServerInfo
destructServerInfo(l, s) ==
    LET server == l.server[s]
        gone == [l EXCEPT !.server[s] = [registered |-> FALSE, isTss |-> FALSE, zoneId |-> 1,
                                         ssVersionTooFarBehind |-> FALSE]]
    IN IF server.ssVersionTooFarBehind /\ ~server.isTss
       THEN removeLaggingStorageServer(gone, server.zoneId)
       ELSE gone

\* the registered servers of a zone that are not TSS and whose version is too far
\* behind
laggingServersOf(l, z) ==
    {s \in LagServers : /\ l.server[s].registered
                        /\ ~l.server[s].isTss
                        /\ l.server[s].zoneId = z
                        /\ l.server[s].ssVersionTooFarBehind}

\* addServer: a server, or a TSS, is registered
LagServerAdded(s, zoneId, isTss) ==
    /\ ~lagging.assertFailed /\ lagging.budget > 0
    /\ ~lagging.server[s].registered
    /\ lagging' = [lagging EXCEPT
                       !.server[s] = [registered |-> TRUE, isTss |-> isTss, zoneId |-> zoneId,
                                      ssVersionTooFarBehind |-> FALSE],
                       !.budget = @ - 1]
    /\ UNCHANGED exceptLagging

\* serverMetricsPolling: updateServerMetrics got its reply
LagMetricsReplied(s, lag) ==
    /\ ~lagging.assertFailed
    /\ lagging.server[s].registered
    /\ updateServerMetrics(lagging, s, lag) # lagging
    /\ lagging' = updateServerMetrics(lagging, s, lag)
    /\ UNCHANGED exceptLagging

\* storageServerTracker, when(interfaceChanged): lastKnownInterface is replaced
LagInterfaceChanged(s, zoneId) ==
    /\ ~lagging.assertFailed /\ lagging.budget > 0
    /\ lagging.server[s].registered
    /\ zoneId # lagging.server[s].zoneId
    /\ lagging' = [lagging EXCEPT !.server[s].zoneId = zoneId, !.budget = @ - 1]
    /\ UNCHANGED exceptLagging

\* removeServer or removeTSS: the server's record is erased and destructed
LagServerRemoved(s) ==
    /\ ~lagging.assertFailed
    /\ lagging.server[s].registered
    /\ lagging' = destructServerInfo(lagging, s)
    /\ UNCHANGED exceptLagging

LagNext ==
    \/ \E s \in LagServers, zoneId \in LagZones, isTss \in BOOLEAN :
           LagServerAdded(s, zoneId, isTss)
    \/ \E s \in LagServers, lag \in {"behind", "normal", "between"} : LagMetricsReplied(s, lag)
    \/ \E s \in LagServers, zoneId \in LagZones : LagInterfaceChanged(s, zoneId)
    \/ \E s \in LagServers : LagServerRemoved(s)

LagSpec == Init /\ [][LagNext]_vars

\* C40: lagging_zones[z] is the number of registered servers of zone z that are not
\* TSS and whose ssVersionTooFarBehind is set, and no assertion of
\* removeLaggingStorageServer fails
C40_LaggingZonesCounts ==
    /\ ~lagging.assertFailed
    /\ \A z \in LagZones : lagging.lagging_zones[z] = Cardinality(laggingServersOf(lagging, z))

\* the assertions of removeLaggingStorageServer alone
laggingAssertionsHold == ~lagging.assertFailed

LagTypeOK == lagging.budget >= 0

====
